---- MODULE Spec2Model ----
(***************************************************************************)
(* A model of the Jieqi engine core (rust-ai): position encoding, the FEN  *)
(* codec, the mailbox board with make/undo and legal-move generation, the  *)
(* hidden-pool distribution, the IT3 evaluator and the IT3 expectimax      *)
(* search with iterative deepening.                                        *)
(*                                                                         *)
(* Conventions.  Option<T>::None is the string "None" for piece types and  *)
(* the position NoPos for positions; an empty square is the piece Empty.   *)
(* A string is a sequence of one-character strings.  f64 scores are exact  *)
(* rationals [num, den] (floating-point rounding is not modelled).  A      *)
(* panic (expect/unwrap on None) is the value Panic of the operator that   *)
(* would have panicked.                                                    *)
(***************************************************************************)
EXTENDS Integers, Sequences, FiniteSets, TLC

(***************************************************************************)
(* types.rs                                                                *)
(***************************************************************************)
Red == "Red"
Black == "Black"
Colors == {Red, Black}

opposite(c) == IF c = Red THEN Black ELSE Red

NoType == "None"
ALL_PIECE_TYPES == <<"King", "Advisor", "Elephant", "Horse", "Rook", "Cannon", "Pawn">>
PieceTypes == {ALL_PIECE_TYPES[i] : i \in 1..7}

UpperChars == <<"A","B","C","D","E","F","G","H","I","J","K","L","M",
                "N","O","P","Q","R","S","T","U","V","W","X","Y","Z">>
LowerChars == <<"a","b","c","d","e","f","g","h","i","j","k","l","m",
                "n","o","p","q","r","s","t","u","v","w","x","y","z">>
DigitChars == <<"0","1","2","3","4","5","6","7","8","9">>
Whitespace == {" ", "\t", "\n"}

is_ascii_uppercase(ch) == \E i \in 1..26 : UpperChars[i] = ch
is_ascii_lowercase(ch) == \E i \in 1..26 : LowerChars[i] = ch
is_ascii_alphabetic(ch) == is_ascii_uppercase(ch) \/ is_ascii_lowercase(ch)
is_ascii_digit(ch) == \E i \in 1..10 : DigitChars[i] = ch
to_ascii_lowercase(ch) ==
    IF is_ascii_uppercase(ch)
    THEN LowerChars[CHOOSE i \in 1..26 : UpperChars[i] = ch] ELSE ch
to_ascii_uppercase(ch) ==
    IF is_ascii_lowercase(ch)
    THEN UpperChars[CHOOSE i \in 1..26 : LowerChars[i] = ch] ELSE ch
DigitVal(ch) == (CHOOSE i \in 1..10 : DigitChars[i] = ch) - 1
DigitStr(n) == DigitChars[n + 1]

Color_from_fen_char(ch) ==
    IF ch = "r" THEN Red ELSE IF ch = "b" THEN Black ELSE NoType
Color_to_fen_char(c) == IF c = Red THEN "r" ELSE "b"

PieceType_from_fen_char(ch) ==
    LET c == to_ascii_lowercase(ch) IN
    CASE c = "k" -> "King"
      [] c = "a" -> "Advisor"
      [] c = "e" -> "Elephant"
      [] c = "h" -> "Horse"
      [] c = "r" -> "Rook"
      [] c = "c" -> "Cannon"
      [] c = "p" -> "Pawn"
      [] OTHER -> NoType

PieceType_to_fen_char(pt) ==
    CASE pt = "King" -> "k"
      [] pt = "Advisor" -> "a"
      [] pt = "Elephant" -> "e"
      [] pt = "Horse" -> "h"
      [] pt = "Rook" -> "r"
      [] pt = "Cannon" -> "c"
      [] pt = "Pawn" -> "p"

PieceType_value(pt) ==
    CASE pt = "King" -> 100000
      [] pt = "Rook" -> 900
      [] pt = "Cannon" -> 450
      [] pt = "Horse" -> 400
      [] pt = "Elephant" -> 200
      [] pt = "Advisor" -> 200
      [] pt = "Pawn" -> 100

Pos(r, c) == [row |-> r, col |-> c]
NoPos == [row |-> -99, col |-> -99]

is_valid(p) == p.row \in 0..9 /\ p.col \in 0..8

is_in_palace(p, color) ==
    /\ p.col \in 3..5
    /\ IF color = Red THEN p.row \in 0..2 ELSE p.row \in 7..9

is_on_own_side(p, color) ==
    IF color = Red THEN p.row \in 0..4 ELSE p.row \in 5..9

offset(p, dr, dc) == [row |-> p.row + dr, col |-> p.col + dc]

to_index(p) == p.row * 9 + p.col
from_index(i) == [row |-> i \div 9, col |-> i % 9]

RevealAndMove == "RevealAndMove"
Move == "Move"

JieqiMove(a, f, t) == [action_type |-> a, from_pos |-> f, to_pos |-> t]

get_position_piece_type(p) ==
    LET back(col) ==
            CASE col \in {0, 8} -> "Rook"
              [] col \in {1, 7} -> "Horse"
              [] col \in {2, 6} -> "Elephant"
              [] col \in {3, 5} -> "Advisor"
              [] col = 4 -> "King"
              [] OTHER -> NoType
    IN
    IF p.row = 0 THEN back(p.col)
    ELSE IF p.row = 2 /\ (p.col = 1 \/ p.col = 7) THEN "Cannon"
    ELSE IF p.row = 3 /\ p.col % 2 = 0 THEN "Pawn"
    ELSE IF p.row = 9 THEN back(p.col)
    ELSE IF p.row = 7 /\ (p.col = 1 \/ p.col = 7) THEN "Cannon"
    ELSE IF p.row = 6 /\ p.col % 2 = 0 THEN "Pawn"
    ELSE NoType

(***************************************************************************)
(* fen.rs: parse_fen, parse_board, parse_captured, pieces_to_fen           *)
(***************************************************************************)
FenPiece(p, c, h, t) == [position |-> p, color |-> c, is_hidden |-> h, piece_type |-> t]
CapturedPieceInfo(t, h) == [piece_type |-> t, was_hidden |-> h]
Err == [ok |-> FALSE]

RECURSIVE SplitFrom(_, _, _)
SplitFrom(s, seps, cur) ==
    IF s = <<>> THEN <<cur>>
    ELSE IF Head(s) \in seps THEN <<cur>> \o SplitFrom(Tail(s), seps, <<>>)
    ELSE SplitFrom(Tail(s), seps, Append(cur, Head(s)))

split(s, sep) == SplitFrom(s, {sep}, <<>>)
split_whitespace(s) == SelectSeq(SplitFrom(s, Whitespace, <<>>), LAMBDA f : f # <<>>)

RECURSIVE ScanRow(_, _, _, _)
ScanRow(s, row, col, pieces) ==
    IF s = <<>> \/ col >= 9 THEN [ok |-> TRUE, col |-> col, pieces |-> pieces]
    ELSE LET ch == Head(s) IN
         IF is_ascii_digit(ch) THEN ScanRow(Tail(s), row, col + DigitVal(ch), pieces)
         ELSE IF ch = "X" THEN
            ScanRow(Tail(s), row, col + 1,
                    Append(pieces, FenPiece(Pos(row, col), Red, TRUE, NoType)))
         ELSE IF ch = "x" THEN
            ScanRow(Tail(s), row, col + 1,
                    Append(pieces, FenPiece(Pos(row, col), Black, TRUE, NoType)))
         ELSE IF is_ascii_alphabetic(ch) THEN
            IF PieceType_from_fen_char(ch) = NoType THEN Err
            ELSE ScanRow(Tail(s), row, col + 1,
                         Append(pieces,
                                FenPiece(Pos(row, col),
                                         IF is_ascii_uppercase(ch) THEN Red ELSE Black,
                                         FALSE, PieceType_from_fen_char(ch))))
         ELSE Err

RECURSIVE ScanRows(_, _, _)
ScanRows(rows, row_idx, pieces) ==
    IF row_idx > Len(rows) THEN [ok |-> TRUE, pieces |-> pieces]
    ELSE LET r == ScanRow(rows[row_idx], 9 - (row_idx - 1), 0, pieces) IN
         IF ~r.ok THEN Err
         ELSE IF r.col # 9 THEN Err
         ELSE ScanRows(rows, row_idx + 1, r.pieces)

parse_board(board_str) ==
    LET rows == split(board_str, "/") IN
    IF Len(rows) # 10 THEN Err ELSE ScanRows(rows, 1, <<>>)

RECURSIVE ScanCaptured(_, _)
ScanCaptured(s, acc) ==
    IF s = <<>> THEN [ok |-> TRUE, list |-> acc]
    ELSE LET ch == Head(s) IN
         IF ch = "?" THEN ScanCaptured(Tail(s), Append(acc, CapturedPieceInfo(NoType, TRUE)))
         ELSE IF PieceType_from_fen_char(ch) = NoType THEN Err
         ELSE ScanCaptured(Tail(s),
                           Append(acc, CapturedPieceInfo(PieceType_from_fen_char(ch),
                                                         is_ascii_lowercase(ch))))

parse_captured(captured_str) ==
    LET parts == split(captured_str, ":") IN
    IF Len(parts) # 2 THEN Err
    ELSE LET red == IF parts[1] = <<"-">> THEN [ok |-> TRUE, list |-> <<>>]
                    ELSE ScanCaptured(parts[1], <<>>)
             black == IF parts[2] = <<"-">> THEN [ok |-> TRUE, list |-> <<>>]
                      ELSE ScanCaptured(parts[2], <<>>)
         IN IF ~red.ok \/ ~black.ok THEN Err
            ELSE [ok |-> TRUE, red_captured |-> red.list, black_captured |-> black.list]

parse_fen(fen) ==
    LET parts == split_whitespace(fen) IN
    IF Len(parts) # 4 THEN Err
    ELSE LET pieces == parse_board(parts[1])
             captured == parse_captured(parts[2])
             turn == Color_from_fen_char(Head(parts[3]))
             viewer == Color_from_fen_char(Head(parts[4]))
         IN IF ~pieces.ok THEN Err
            ELSE IF ~captured.ok THEN Err
            ELSE IF turn = NoType THEN Err
            ELSE IF viewer = NoType THEN Err
            ELSE [ok |-> TRUE, pieces |-> pieces.pieces,
                  captured |-> [red_captured |-> captured.red_captured,
                                black_captured |-> captured.black_captured],
                  turn |-> turn, viewer |-> viewer]


PieceAt(pieces, row, col) ==
    LET S == {k \in 1..Len(pieces) :
                 /\ pieces[k].position.row = row /\ pieces[k].position.col = col
                 /\ is_valid(pieces[k].position)}
    IN IF S = {} THEN 0 ELSE CHOOSE k \in S : \A j \in S : j <= k

RECURSIVE EmitRow(_, _, _, _, _)
EmitRow(pieces, row, col, empty_count, row_str) ==
    IF col > 8 THEN
        IF empty_count > 0 THEN Append(row_str, DigitStr(empty_count)) ELSE row_str
    ELSE LET k == PieceAt(pieces, row, col) IN
         IF k = 0 THEN EmitRow(pieces, row, col + 1, empty_count + 1, row_str)
         ELSE LET piece == pieces[k]
                  flushed == IF empty_count > 0
                             THEN Append(row_str, DigitStr(empty_count)) ELSE row_str
                  pushed ==
                      IF piece.is_hidden
                      THEN Append(flushed, IF piece.color = Red THEN "X" ELSE "x")
                      ELSE IF piece.piece_type # NoType
                      THEN Append(flushed,
                                  IF piece.color = Red
                                  THEN to_ascii_uppercase(PieceType_to_fen_char(piece.piece_type))
                                  ELSE PieceType_to_fen_char(piece.piece_type))
                      ELSE flushed
              IN EmitRow(pieces, row, col + 1, 0, pushed)

RECURSIVE JoinRows(_, _)
JoinRows(pieces, row) ==
    IF row = 0 THEN EmitRow(pieces, 0, 0, 0, <<>>)
    ELSE EmitRow(pieces, row, 0, 0, <<>>) \o <<"/">> \o JoinRows(pieces, row - 1)

red_captured_str(list) ==
    IF list = <<>> THEN <<"-">>
    ELSE [i \in 1..Len(list) |->
            IF list[i].piece_type # NoType
            THEN to_ascii_uppercase(PieceType_to_fen_char(list[i].piece_type))
            ELSE "?"]

black_captured_str(list) ==
    IF list = <<>> THEN <<"-">>
    ELSE [i \in 1..Len(list) |->
            IF list[i].piece_type # NoType
            THEN PieceType_to_fen_char(list[i].piece_type)
            ELSE "?"]

pieces_to_fen(pieces, captured, turn, viewer) ==
    JoinRows(pieces, 9) \o <<" ">>
    \o red_captured_str(captured.red_captured) \o <<":">>
    \o black_captured_str(captured.black_captured)
    \o <<" ", Color_to_fen_char(turn), " ", Color_to_fen_char(viewer)>>

(***************************************************************************)
(* board.rs: Piece, Board, from_fen, simulate_reveal, make_move, undo_move *)
(***************************************************************************)
Panic == "Panic"

Piece(c, p, h, at, mt) ==
    [color |-> c, position |-> p, is_hidden |-> h, actual_type |-> at, movement_type |-> mt]
Empty == Piece("None", NoPos, FALSE, NoType, NoType)

get_movement_type(piece) ==
    IF piece.is_hidden
    THEN (IF piece.movement_type = NoType THEN Panic ELSE piece.movement_type)
    ELSE (IF piece.actual_type = NoType THEN Panic ELSE piece.actual_type)

FromFenPiece(fp) ==
    Piece(fp.color, fp.position, fp.is_hidden, fp.piece_type,
          IF fp.is_hidden THEN get_position_piece_type(fp.position) ELSE fp.piece_type)

LastKing(pieces, color) ==
    LET S == {k \in 1..Len(pieces) :
                 /\ pieces[k].color = color
                 /\ \/ FromFenPiece(pieces[k]).movement_type = "King"
                    \/ pieces[k].piece_type = "King"}
    IN IF S = {} THEN NoPos
       ELSE pieces[CHOOSE k \in S : \A j \in S : j <= k].position

from_fen(fen) ==
    LET state == parse_fen(fen) IN
    IF ~state.ok THEN Err
    ELSE [ok |-> TRUE,
          squares |-> [i \in 0..89 |->
                         LET k == PieceAt(state.pieces, i \div 9, i % 9) IN
                         IF k = 0 THEN Empty ELSE FromFenPiece(state.pieces[k])],
          viewer |-> state.viewer,
          current_turn |-> state.turn,
          red_king_pos |-> LastKing(state.pieces, Red),
          black_king_pos |-> LastKing(state.pieces, Black),
          captured |-> state.captured]

get_piece(b, pos) == IF ~is_valid(pos) THEN Empty ELSE b.squares[to_index(pos)]
has_piece(b, pos) == is_valid(pos) /\ b.squares[to_index(pos)] # Empty
find_king(b, color) == IF color = Red THEN b.red_king_pos ELSE b.black_king_pos

get_all_pieces(b, color) ==
    LET idx == SelectSeq([i \in 1..90 |-> i - 1],
                         LAMBDA i : b.squares[i] # Empty
                                    /\ (color = NoType \/ b.squares[i].color = color))
    IN [k \in 1..Len(idx) |-> b.squares[idx[k]]]

SetKing(b, color, pos) ==
    IF color = Red THEN [b EXCEPT !.red_king_pos = pos]
    ELSE [b EXCEPT !.black_king_pos = pos]

NoState == [actual_type |-> NoType, is_hidden |-> FALSE, some |-> FALSE]

simulate_reveal(b, pos, piece_type) ==
    LET piece == b.squares[to_index(pos)] IN
    IF piece = Empty \/ ~piece.is_hidden THEN [board |-> b, state |-> NoState]
    ELSE [board |-> [b EXCEPT !.squares[to_index(pos)] =
                        [piece EXCEPT !.is_hidden = FALSE, !.actual_type = piece_type]],
          state |-> [actual_type |-> piece.actual_type, is_hidden |-> piece.is_hidden,
                     some |-> TRUE]]

restore_simulated_reveal(b, pos, state) ==
    LET piece == b.squares[to_index(pos)] IN
    IF piece = Empty THEN b
    ELSE [b EXCEPT !.squares[to_index(pos)] =
             [piece EXCEPT !.actual_type = state.actual_type, !.is_hidden = state.is_hidden]]

\* make_move without the early return on an empty from-square; used to show
\* that the board is left alone only because of it.
make_move_from_empty_square(b, mv) ==
    LET from_idx == to_index(mv.from_pos)
        to_idx == to_index(mv.to_pos)
        piece == b.squares[from_idx]
        sq1 == [b.squares EXCEPT ![from_idx] = Empty]
        captured == sq1[to_idx]
        b2 == IF captured # Empty /\ get_movement_type(captured) = "King"
              THEN SetKing(b, captured.color, NoPos) ELSE b
    IN [board |-> [b2 EXCEPT !.squares = [sq1 EXCEPT ![to_idx] = piece],
                             !.current_turn = opposite(b.current_turn)],
        captured |-> captured]

\* make_move without the clearing of the cache when a king is captured; used to
\* show that the agreement of the cache with the squares depends on it.
make_move_captured_king_cached(b, mv) ==
    LET from_idx == to_index(mv.from_pos)
        to_idx == to_index(mv.to_pos)
        taken == b.squares[from_idx]
    IN
    IF taken = Empty THEN [board |-> b, captured |-> Empty]
    ELSE
    LET piece == IF mv.action_type = RevealAndMove
                 THEN [taken EXCEPT !.is_hidden = FALSE, !.actual_type = taken.movement_type]
                 ELSE taken
        sq1 == [b.squares EXCEPT ![from_idx] = Empty]
        captured == sq1[to_idx]
        b1 == IF get_movement_type(piece) = "King"
              THEN SetKing(b, piece.color, mv.to_pos) ELSE b
    IN [board |-> [b1 EXCEPT !.squares = [sq1 EXCEPT ![to_idx] =
                                             [piece EXCEPT !.position = mv.to_pos]],
                             !.current_turn = opposite(b.current_turn)],
        captured |-> captured]

make_move(b, mv) ==
    LET from_idx == to_index(mv.from_pos)
        to_idx == to_index(mv.to_pos)
        taken == b.squares[from_idx]
    IN
    IF taken = Empty THEN [board |-> b, captured |-> Empty]
    ELSE
    LET piece == IF mv.action_type = RevealAndMove
                 THEN [taken EXCEPT !.is_hidden = FALSE, !.actual_type = taken.movement_type]
                 ELSE taken
        sq1 == [b.squares EXCEPT ![from_idx] = Empty]
        captured == sq1[to_idx]
        b1 == IF get_movement_type(piece) = "King"
              THEN SetKing(b, piece.color, mv.to_pos) ELSE b
        b2 == IF captured # Empty /\ get_movement_type(captured) = "King"
              THEN SetKing(b1, captured.color, NoPos) ELSE b1
    IN [board |-> [b2 EXCEPT !.squares = [sq1 EXCEPT ![to_idx] =
                                             [piece EXCEPT !.position = mv.to_pos]],
                             !.current_turn = opposite(b.current_turn)],
        captured |-> captured]

\* undo_move without the restoration of the mover's king cache; used to show that
\* the make/undo symmetry depends on it.
undo_move_stale_king_cache(b, mv, captured, was_hidden) ==
    LET from_idx == to_index(mv.from_pos)
        to_idx == to_index(mv.to_pos)
        taken == b.squares[to_idx]
        piece == IF was_hidden
                 THEN [taken EXCEPT !.is_hidden = TRUE, !.actual_type = NoType]
                 ELSE taken
        sq1 == [b.squares EXCEPT ![to_idx] = Empty]
        sq2 == [sq1 EXCEPT ![from_idx] = [piece EXCEPT !.position = mv.from_pos]]
        b2 == IF captured # Empty /\ get_movement_type(captured) = "King"
              THEN SetKing(b, captured.color, mv.to_pos) ELSE b
        sq3 == IF captured # Empty THEN [sq2 EXCEPT ![to_idx] = captured] ELSE sq2
    IN [b2 EXCEPT !.squares = sq3, !.current_turn = opposite(b.current_turn)]

undo_move(b, mv, captured, was_hidden) ==
    LET from_idx == to_index(mv.from_pos)
        to_idx == to_index(mv.to_pos)
        taken == b.squares[to_idx]
        piece == IF was_hidden
                 THEN [taken EXCEPT !.is_hidden = TRUE, !.actual_type = NoType]
                 ELSE taken
        b1 == IF get_movement_type(piece) = "King"
              THEN SetKing(b, piece.color, mv.from_pos) ELSE b
        sq1 == [b.squares EXCEPT ![to_idx] = Empty]
        sq2 == [sq1 EXCEPT ![from_idx] = [piece EXCEPT !.position = mv.from_pos]]
        b2 == IF captured # Empty /\ get_movement_type(captured) = "King"
              THEN SetKing(b1, captured.color, mv.to_pos) ELSE b1
        sq3 == IF captured # Empty THEN [sq2 EXCEPT ![to_idx] = captured] ELSE sq2
    IN [b2 EXCEPT !.squares = sq3, !.current_turn = opposite(b.current_turn)]

(***************************************************************************)
(* board.rs: pseudo-legal moves per piece, attack detection, legal moves   *)
(***************************************************************************)
can_move_to(b, piece, pos) ==
    /\ is_valid(pos)
    /\ \/ get_piece(b, pos) = Empty
       \/ get_piece(b, pos).color # piece.color

Orthogonal == << <<1, 0>>, <<-1, 0>>, <<0, 1>>, <<0, -1>> >>
Diagonal == << <<1, 1>>, <<1, -1>>, <<-1, 1>>, <<-1, -1>> >>
ElephantDirs == << <<2, 2, 1, 1>>, <<2, -2, 1, -1>>, <<-2, 2, -1, 1>>, <<-2, -2, -1, -1>> >>
HorseDirs == << <<2, 1, 1, 0>>, <<2, -1, 1, 0>>, <<-2, 1, -1, 0>>, <<-2, -1, -1, 0>>,
                <<1, 2, 0, 1>>, <<1, -2, 0, -1>>, <<-1, 2, 0, 1>>, <<-1, -2, 0, -1>> >>

Targets(pos, dirs) == [i \in 1..Len(dirs) |-> offset(pos, dirs[i][1], dirs[i][2])]

FlyingGeneral(b, piece) ==
    LET pos == piece.position
        enemy_king_pos == find_king(b, opposite(piece.color))
    IN IF enemy_king_pos = NoPos THEN <<>>
       ELSE IF enemy_king_pos.col # pos.col THEN <<>>
       ELSE LET min_row == IF pos.row < enemy_king_pos.row THEN pos.row ELSE enemy_king_pos.row
                max_row == IF pos.row < enemy_king_pos.row THEN enemy_king_pos.row ELSE pos.row
            IN IF \E row \in (min_row + 1)..(max_row - 1) : has_piece(b, Pos(row, pos.col))
               THEN <<>> ELSE <<enemy_king_pos>>

get_king_moves(b, piece) ==
    SelectSeq(Targets(piece.position, Orthogonal),
              LAMBDA new_pos : is_in_palace(new_pos, piece.color) /\ can_move_to(b, piece, new_pos))
    \o FlyingGeneral(b, piece)

get_advisor_moves(b, piece) ==
    SelectSeq(Targets(piece.position, Diagonal),
              LAMBDA new_pos : is_in_palace(new_pos, piece.color) /\ can_move_to(b, piece, new_pos))

get_elephant_moves(b, piece) ==
    LET pos == piece.position
        ok(d) == /\ is_on_own_side(offset(pos, d[1], d[2]), piece.color)
                 /\ ~has_piece(b, offset(pos, d[3], d[4]))
                 /\ is_valid(offset(pos, d[1], d[2]))
                 /\ can_move_to(b, piece, offset(pos, d[1], d[2]))
    IN Targets(pos, SelectSeq(ElephantDirs, ok))

get_horse_moves(b, piece) ==
    LET pos == piece.position
        ok(d) == /\ ~has_piece(b, offset(pos, d[3], d[4]))
                 /\ is_valid(offset(pos, d[1], d[2]))
                 /\ can_move_to(b, piece, offset(pos, d[1], d[2]))
    IN Targets(pos, SelectSeq(HorseDirs, ok))

RECURSIVE RookRay(_, _, _, _, _)
RookRay(b, piece, new_pos, dr, dc) ==
    IF ~is_valid(new_pos) THEN <<>>
    ELSE IF get_piece(b, new_pos) = Empty
         THEN <<new_pos>> \o RookRay(b, piece, offset(new_pos, dr, dc), dr, dc)
    ELSE IF get_piece(b, new_pos).color # piece.color THEN <<new_pos>>
    ELSE <<>>

get_rook_moves(b, piece) ==
    RookRay(b, piece, offset(piece.position, 1, 0), 1, 0)
    \o RookRay(b, piece, offset(piece.position, -1, 0), -1, 0)
    \o RookRay(b, piece, offset(piece.position, 0, 1), 0, 1)
    \o RookRay(b, piece, offset(piece.position, 0, -1), 0, -1)

RECURSIVE CannonRay(_, _, _, _, _, _)
CannonRay(b, piece, new_pos, dr, dc, found_platform) ==
    IF ~is_valid(new_pos) THEN <<>>
    ELSE IF get_piece(b, new_pos) = Empty
         THEN (IF ~found_platform THEN <<new_pos>> ELSE <<>>)
              \o CannonRay(b, piece, offset(new_pos, dr, dc), dr, dc, found_platform)
    ELSE IF ~found_platform
         THEN CannonRay(b, piece, offset(new_pos, dr, dc), dr, dc, TRUE)
    ELSE IF get_piece(b, new_pos).color # piece.color THEN <<new_pos>>
    ELSE <<>>

get_cannon_moves(b, piece) ==
    CannonRay(b, piece, offset(piece.position, 1, 0), 1, 0, FALSE)
    \o CannonRay(b, piece, offset(piece.position, -1, 0), -1, 0, FALSE)
    \o CannonRay(b, piece, offset(piece.position, 0, 1), 0, 1, FALSE)
    \o CannonRay(b, piece, offset(piece.position, 0, -1), 0, -1, FALSE)

get_pawn_moves(b, piece) ==
    LET pos == piece.position
        is_red == piece.color = Red
        forward == IF is_red THEN 1 ELSE -1
        crossed_river == IF is_red THEN pos.row >= 5 ELSE pos.row <= 4
        ok(new_pos) == is_valid(new_pos) /\ can_move_to(b, piece, new_pos)
    IN SelectSeq(<<offset(pos, forward, 0)>>, ok)
       \o (IF crossed_river
           THEN SelectSeq(<<offset(pos, 0, -1), offset(pos, 0, 1)>>, ok) ELSE <<>>)

get_potential_moves(b, piece) ==
    LET movement_type == get_movement_type(piece) IN
    CASE movement_type = "King" -> get_king_moves(b, piece)
      [] movement_type = "Advisor" -> get_advisor_moves(b, piece)
      [] movement_type = "Elephant" -> get_elephant_moves(b, piece)
      [] movement_type = "Horse" -> get_horse_moves(b, piece)
      [] movement_type = "Rook" -> get_rook_moves(b, piece)
      [] movement_type = "Cannon" -> get_cannon_moves(b, piece)
      [] movement_type = "Pawn" -> get_pawn_moves(b, piece)

\* Sweep with the rook accepted behind one screen as well; used to show that
\* the agreement with the generated moves depends on the screen count.
RECURSIVE Sweep_rook_through_screen(_, _, _, _, _, _)
Sweep_rook_through_screen(b, pos, dr, dc, screen_count, attacker_color) ==
    IF ~is_valid(pos) THEN FALSE
    ELSE LET piece == get_piece(b, pos) IN
         IF piece = Empty
         THEN Sweep_rook_through_screen(b, offset(pos, dr, dc), dr, dc, screen_count,
                                        attacker_color)
         ELSE IF /\ piece.color = attacker_color
                 /\ \/ screen_count <= 1 /\ get_movement_type(piece) = "Rook"
                    \/ screen_count = 1 /\ get_movement_type(piece) = "Cannon"
                    \/ screen_count = 0 /\ get_movement_type(piece) = "King"
              THEN TRUE
         ELSE IF screen_count + 1 >= 2 THEN FALSE
         ELSE Sweep_rook_through_screen(b, offset(pos, dr, dc), dr, dc, screen_count + 1,
                                        attacker_color)

\* Sweep with the cannon accepted on an open line, as a rook is; used to show
\* that the cannon property depends on the screen count.
RECURSIVE Sweep_cannon_unscreened(_, _, _, _, _, _)
Sweep_cannon_unscreened(b, pos, dr, dc, screen_count, attacker_color) ==
    IF ~is_valid(pos) THEN FALSE
    ELSE LET piece == get_piece(b, pos) IN
         IF piece = Empty
         THEN Sweep_cannon_unscreened(b, offset(pos, dr, dc), dr, dc, screen_count,
                                      attacker_color)
         ELSE IF /\ piece.color = attacker_color
                 /\ \/ screen_count = 0 /\ get_movement_type(piece) = "Rook"
                    \/ screen_count = 0 /\ get_movement_type(piece) = "Cannon"
                    \/ screen_count = 0 /\ get_movement_type(piece) = "King"
              THEN TRUE
         ELSE IF screen_count + 1 >= 2 THEN FALSE
         ELSE Sweep_cannon_unscreened(b, offset(pos, dr, dc), dr, dc, screen_count + 1,
                                      attacker_color)

RECURSIVE Sweep(_, _, _, _, _, _)
Sweep(b, pos, dr, dc, screen_count, attacker_color) ==
    IF ~is_valid(pos) THEN FALSE
    ELSE LET piece == get_piece(b, pos) IN
         IF piece = Empty
         THEN Sweep(b, offset(pos, dr, dc), dr, dc, screen_count, attacker_color)
         ELSE IF /\ piece.color = attacker_color
                 /\ \/ screen_count = 0 /\ get_movement_type(piece) = "Rook"
                    \/ screen_count = 1 /\ get_movement_type(piece) = "Cannon"
                    \/ screen_count = 0 /\ get_movement_type(piece) = "King"
              THEN TRUE
         ELSE IF screen_count + 1 >= 2 THEN FALSE
         ELSE Sweep(b, offset(pos, dr, dc), dr, dc, screen_count + 1, attacker_color)

HorseAttack(b, target_pos, attacker_color) ==
    \E i \in 1..8 :
        LET d == HorseDirs[i]
            horse_pos == offset(target_pos, d[1], d[2])
            leg_pos == offset(horse_pos, -d[3], -d[4])
            piece == get_piece(b, horse_pos)
        IN /\ piece # Empty
           /\ piece.color = attacker_color
           /\ get_movement_type(piece) = "Horse"
           /\ ~has_piece(b, leg_pos)

PawnAttack(b, target_pos, attacker_color) ==
    LET pawn_attacks == IF attacker_color = Red
                        THEN << <<-1, 0>>, <<0, -1>>, <<0, 1>> >>
                        ELSE << <<1, 0>>, <<0, -1>>, <<0, 1>> >>
    IN \E i \in 1..3 :
        LET dr == pawn_attacks[i][1]
            dc == pawn_attacks[i][2]
            piece == get_piece(b, offset(target_pos, dr, dc))
            is_red == piece.color = Red
            crossed == IF is_red THEN piece.position.row >= 5 ELSE piece.position.row <= 4
            forward == IF is_red THEN 1 ELSE -1
        IN /\ piece # Empty
           /\ piece.color = attacker_color
           /\ get_movement_type(piece) = "Pawn"
           /\ (dr = -forward \/ (crossed /\ dc # 0))

is_position_attacked(b, target_pos, attacker_color) ==
    \/ \E i \in 1..4 :
          Sweep(b, offset(target_pos, Orthogonal[i][1], Orthogonal[i][2]),
                Orthogonal[i][1], Orthogonal[i][2], 0, attacker_color)
    \/ HorseAttack(b, target_pos, attacker_color)
    \/ PawnAttack(b, target_pos, attacker_color)

is_in_check(b, color) ==
    IF find_king(b, color) # NoPos
    THEN is_position_attacked(b, find_king(b, color), opposite(color))
    ELSE TRUE

(* One trial of get_legal_moves_mut's inner loop: make, test, undo.  The    *)
(* board is threaded through, as the code mutates the one board in place.  *)
RECURSIVE TryMoves(_, _, _, _, _, _, _, _)
TryMoves(b, color, king_pos, from_pos, is_hidden, is_king, tos, moves) ==
    IF tos = <<>> THEN [board |-> b, moves |-> moves]
    ELSE LET mv == JieqiMove(IF is_hidden THEN RevealAndMove ELSE Move, from_pos, Head(tos))
             made == make_move(b, mv)
             check_king_pos ==
                 IF is_king THEN Head(tos)
                 ELSE IF find_king(made.board, color) # NoPos
                      THEN find_king(made.board, color) ELSE king_pos
             in_check == is_position_attacked(made.board, check_king_pos, opposite(color))
             undone == undo_move(made.board, mv, made.captured, is_hidden)
         IN IF in_check
            THEN TryMoves(undone, color, king_pos, from_pos, is_hidden, is_king,
                          Tail(tos), moves)
            ELSE TryMoves(undone, color, king_pos, from_pos, is_hidden, is_king,
                          Tail(tos), Append(moves, mv))

RECURSIVE TryPieces(_, _, _, _, _)
TryPieces(b, color, king_pos, my_pieces, moves) ==
    IF my_pieces = <<>> THEN [board |-> b, moves |-> moves]
    ELSE LET p == Head(my_pieces)
             here == get_piece(b, p.position)
         IN IF here = Empty THEN TryPieces(b, color, king_pos, Tail(my_pieces), moves)
            ELSE LET r == TryMoves(b, color, king_pos, p.position, p.is_hidden,
                                   p.movement_type = "King",
                                   get_potential_moves(b, here), moves)
                 IN TryPieces(r.board, color, king_pos, Tail(my_pieces), r.moves)

\* get_legal_moves_mut without the self-check filter (every pseudo-legal move is
\* returned); used to show that the king-safety property depends on the filter.
RECURSIVE PotentialOfPieces(_, _, _)
PotentialOfPieces(b, my_pieces, moves) ==
    IF my_pieces = <<>> THEN moves
    ELSE LET p == Head(my_pieces)
             tos == get_potential_moves(b, get_piece(b, p.position))
             mvs == [k \in 1..Len(tos) |->
                        JieqiMove(IF p.is_hidden THEN RevealAndMove ELSE Move,
                                  p.position, tos[k])]
         IN PotentialOfPieces(b, Tail(my_pieces), moves \o mvs)

get_legal_moves_unfiltered(b, color) ==
    IF find_king(b, color) = NoPos THEN [board |-> b, moves |-> <<>>]
    ELSE [board |-> b, moves |-> PotentialOfPieces(b, get_all_pieces(b, color), <<>>)]

get_legal_moves_mut(b, color) ==
    IF find_king(b, color) = NoPos THEN [board |-> b, moves |-> <<>>]
    ELSE LET pcs == get_all_pieces(b, color)
             my_pieces == [k \in 1..Len(pcs) |->
                             [position |-> pcs[k].position, is_hidden |-> pcs[k].is_hidden,
                              movement_type |-> get_movement_type(pcs[k])]]
         IN TryPieces(b, color, find_king(b, color), my_pieces, <<>>)

get_legal_moves(b, color) == get_legal_moves_mut(b, color).moves

\* get_game_result scoring a stalemate as a loss; used to show that the stated
\* result table depends on the Draw branch.
get_game_result_no_draw(b) ==
    IF find_king(b, Red) = NoPos THEN "BlackWin"
    ELSE IF find_king(b, Black) = NoPos THEN "RedWin"
    ELSE LET g == get_legal_moves_mut(b, b.current_turn) IN
         IF g.moves = <<>>
         THEN (IF b.current_turn = Red THEN "BlackWin" ELSE "RedWin")
         ELSE "Ongoing"

get_game_result(b) ==
    IF find_king(b, Red) = NoPos THEN "BlackWin"
    ELSE IF find_king(b, Black) = NoPos THEN "RedWin"
    ELSE LET g == get_legal_moves_mut(b, b.current_turn) IN
         IF g.moves = <<>>
         THEN (IF is_in_check(g.board, b.current_turn)
               THEN (IF b.current_turn = Red THEN "BlackWin" ELSE "RedWin")
               ELSE "Draw")
         ELSE "Ongoing"

\* The board get_game_result(None) leaves: its get_legal_moves works in place.
get_game_result_board(b) ==
    IF find_king(b, Red) = NoPos \/ find_king(b, Black) = NoPos THEN b
    ELSE get_legal_moves_mut(b, b.current_turn).board

(***************************************************************************)
(* types.rs: move text; fen.rs: apply_move_to_fen                          *)
(***************************************************************************)
ColChars == <<"a", "b", "c", "d", "e", "f", "g", "h", "i">>

Position_from_fen_str(s) ==
    IF Len(s) # 2 THEN NoPos
    ELSE IF ~(\E c \in 1..9 : ColChars[c] = s[1]) THEN NoPos
    ELSE IF ~is_ascii_digit(s[2]) THEN NoPos
    ELSE Pos(DigitVal(s[2]), (CHOOSE c \in 1..9 : ColChars[c] = s[1]) - 1)

Position_to_fen_str(p) == <<ColChars[p.col + 1], DigitStr(p.row)>>

RECURSIVE trim_start(_)
trim_start(s) ==
    IF s # <<>> /\ Head(s) \in Whitespace THEN trim_start(Tail(s)) ELSE s

RECURSIVE trim_end(_)
trim_end(s) ==
    IF s # <<>> /\ s[Len(s)] \in Whitespace THEN trim_end(SubSeq(s, 1, Len(s) - 1)) ELSE s

trim(s) == trim_end(trim_start(s))

\* str::find: the index of the first occurrence, 0 when there is none.
find(s, ch) ==
    LET S == {i \in 1..Len(s) : s[i] = ch}
    IN IF S = {} THEN 0 ELSE CHOOSE i \in S : \A j \in S : i <= j

JieqiMove_from_fen_str(str) ==
    LET s0 == trim(str)
        idx == find(s0, "=")
    IN
    IF idx > 0 /\ idx = Len(s0) THEN [ok |-> FALSE]
    ELSE
    LET revealed_type == IF idx > 0 THEN PieceType_from_fen_char(s0[idx + 1]) ELSE NoType
        s1 == IF idx > 0 THEN SubSeq(s0, 1, idx - 1) ELSE s0
        is_reveal == s1 # <<>> /\ Head(s1) = "+"
        s2 == IF is_reveal THEN Tail(s1) ELSE s1
    IN
    IF Len(s2) # 4 THEN [ok |-> FALSE]
    ELSE LET from_pos == Position_from_fen_str(SubSeq(s2, 1, 2))
             to_pos == Position_from_fen_str(SubSeq(s2, 3, 4))
         IN IF from_pos = NoPos \/ to_pos = NoPos THEN [ok |-> FALSE]
            ELSE [ok |-> TRUE,
                  mv |-> JieqiMove(IF is_reveal THEN RevealAndMove ELSE Move,
                                   from_pos, to_pos),
                  revealed_type |-> revealed_type]

JieqiMove_to_fen_str(mv, revealed_type) ==
    (IF mv.action_type = RevealAndMove THEN <<"+">> ELSE <<>>)
    \o Position_to_fen_str(mv.from_pos) \o Position_to_fen_str(mv.to_pos)
    \o (IF revealed_type # NoType
        THEN <<"=", to_ascii_uppercase(PieceType_to_fen_char(revealed_type))>>
        ELSE <<>>)

\* The last piece of the list whose index is in S (0 when there is none).
LastAt(S) == IF S = {} THEN 0 ELSE CHOOSE k \in S : \A j \in S : j <= k

\* The moved piece after the reveal and the change of square.
MovedPiece(fp, mv, revealed_type) ==
    [fp EXCEPT
        !.is_hidden = IF mv.action_type = RevealAndMove THEN FALSE ELSE @,
        !.piece_type = IF mv.action_type # RevealAndMove THEN @
                       ELSE IF revealed_type # NoType THEN revealed_type
                       ELSE get_position_piece_type(mv.from_pos),
        !.position = mv.to_pos]

\* The captured record with the captured piece (if any) appended.
NewCaptured(captured, cap) ==
    IF cap = <<>> THEN captured
    ELSE IF cap[1].color = Red
    THEN [captured EXCEPT !.red_captured =
              Append(@, CapturedPieceInfo(cap[1].piece_type, cap[1].is_hidden))]
    ELSE [captured EXCEPT !.black_captured =
              Append(@, CapturedPieceInfo(cap[1].piece_type, cap[1].is_hidden))]

ApplyMove(state, mv, revealed_type, moved_k, captured_k) ==
    IF moved_k = 0 THEN Err
    ELSE [ok |-> TRUE,
          fen |-> pieces_to_fen(
                      Append(SelectSeq(state.pieces,
                                       LAMBDA fp : fp.position # mv.from_pos
                                                   /\ fp.position # mv.to_pos),
                             MovedPiece(state.pieces[moved_k], mv, revealed_type)),
                      NewCaptured(state.captured,
                                  IF captured_k = 0 THEN <<>>
                                  ELSE <<state.pieces[captured_k]>>),
                      opposite(state.turn), state.viewer)]

ApplyParsed(state, pm, revealed_type) ==
    IF ~state.ok THEN Err
    ELSE IF ~pm.ok THEN Err
    ELSE ApplyMove(state, pm.mv, revealed_type,
                   LastAt({k \in 1..Len(state.pieces) :
                              state.pieces[k].position = pm.mv.from_pos}),
                   LastAt({k \in 1..Len(state.pieces) :
                              /\ state.pieces[k].position # pm.mv.from_pos
                              /\ state.pieces[k].position = pm.mv.to_pos}))

apply_move_to_fen(fen, move_str, revealed_type) ==
    ApplyParsed(parse_fen(fen), JieqiMove_from_fen_str(move_str), revealed_type)

(***************************************************************************)
(* ai/it3/eval.rs: HiddenPieceDistribution                                 *)
(***************************************************************************)
INITIAL_COUNT(t) ==
    CASE t = "King" -> 1
      [] t = "Pawn" -> 5
      [] OTHER -> 2

PIECE_VALUES(t) ==
    CASE t = "King" -> 100000
      [] t = "Advisor" -> 200
      [] t = "Elephant" -> 200
      [] t = "Horse" -> 400
      [] t = "Rook" -> 900
      [] t = "Cannon" -> 450
      [] t = "Pawn" -> 100

priority_order == <<"Rook", "Cannon", "Horse", "Elephant", "Advisor", "Pawn">>

saturating_sub(a, b) == IF a > b THEN a - b ELSE 0
min(a, b) == IF a < b THEN a ELSE b

RECURSIVE SumOver(_, _)
SumOver(f, i) ==
    IF i > Len(ALL_PIECE_TYPES) THEN 0 ELSE f[ALL_PIECE_TYPES[i]] + SumOver(f, i + 1)

sum(f) == SumOver(f, 1)

\* Board::get_captured(color): per type, the captured entries of the color with
\* that identity; and the number of entries of unknown identity.
get_captured(b, color) ==
    LET list == IF color = Red THEN b.captured.red_captured ELSE b.captured.black_captured
    IN [captured |-> [t \in PieceTypes |->
                         Cardinality({k \in 1..Len(list) : list[k].piece_type = t})],
        captured_hidden |-> Cardinality({k \in 1..Len(list) : list[k].piece_type = NoType})]

hidden_count(b, color) ==
    LET pcs == get_all_pieces(b, color)
    IN Cardinality({k \in 1..Len(pcs) : pcs[k].is_hidden})

revealed(b, color) ==
    LET pcs == get_all_pieces(b, color)
    IN [t \in PieceTypes |->
           Cardinality({k \in 1..Len(pcs) : ~pcs[k].is_hidden /\ pcs[k].actual_type = t})]

\* remaining after "initial - revealed - captured", before unknown captures.
remaining_before(b, color) ==
    [t \in PieceTypes |->
        saturating_sub(saturating_sub(INITIAL_COUNT(t), revealed(b, color)[t]),
                       get_captured(b, color).captured[t])]

RECURSIVE AssignLeft(_, _, _, _)
AssignLeft(remaining, new_remaining, to_assign, i) ==
    IF i > Len(priority_order) \/ to_assign = 0 THEN new_remaining
    ELSE LET idx == priority_order[i]
             can_add == saturating_sub(remaining[idx], new_remaining[idx])
             add == min(can_add, to_assign)
         IN AssignLeft(remaining, [new_remaining EXCEPT ![idx] = @ + add],
                       to_assign - add, i + 1)

\* floor(remaining[i] * scale) with scale = target_total / sum_remaining.
ScaleDown(remaining, target_total, sum_remaining) ==
    LET new_remaining == [t \in PieceTypes |-> (remaining[t] * target_total) \div sum_remaining]
        total_assigned == sum(new_remaining)
    IN AssignLeft(remaining, new_remaining, saturating_sub(target_total, total_assigned), 1)

from_board(b, color) ==
    LET remaining == remaining_before(b, color)
        captured_hidden == get_captured(b, color).captured_hidden
        sum_remaining == sum(remaining)
        effective_hidden == hidden_count(b, color)
        target_total == min(effective_hidden, sum_remaining)
    IN [remaining |->
            IF captured_hidden > 0 /\ sum_remaining > effective_hidden
               /\ target_total > 0 /\ sum_remaining > target_total
            THEN ScaleDown(remaining, target_total, sum_remaining)
            ELSE remaining,
        total |-> effective_hidden]

total_count(d) == sum(d.remaining)

\* ai/it2/mod.rs: the IT2 distribution takes no account of captures.
it2_from_board(b, color) ==
    [remaining |-> [t \in PieceTypes |->
                       saturating_sub(INITIAL_COUNT(t), revealed(b, color)[t])],
     total |-> hidden_count(b, color)]

(***************************************************************************)
(* ai/it3/eval.rs, ai/it3/mod.rs: evaluation.  An f64 is an exact fraction *)
(* n/d in lowest terms; d = 0 stands for the two infinities.               *)
(***************************************************************************)
RECURSIVE gcd(_, _)
gcd(a, b) == IF b = 0 THEN a ELSE gcd(b, a % b)

f64(n, d) ==
    LET g == gcd(IF n < 0 THEN -n ELSE n, d)
    IN [n |-> n \div g, d |-> d \div g]

INFINITY == [n |-> 1, d |-> 0]
NEG_INFINITY == [n |-> -1, d |-> 0]

f64_le(a, b) == IF a.d = 0 /\ b.d = 0 THEN a.n <= b.n ELSE a.n * b.d <= b.n * a.d
f64_max(a, b) == IF f64_le(b, a) THEN a ELSE b
f64_min(a, b) == IF f64_le(a, b) THEN a ELSE b
f64_add(a, b) == f64(a.n * b.d + b.n * a.d, a.d * b.d)
f64_mul(a, b) == f64(a.n * b.n, a.d * b.d)
f64_neg(a) == [n |-> -a.n, d |-> a.d]

MATE_SCORE == 100000
PLY_PENALTY == 10

hidden_position_bonus(movement_type, col) ==
    CASE movement_type = "King" -> 0
      [] movement_type = "Advisor" -> -10
      [] movement_type = "Elephant" -> -30
      [] movement_type = "Horse" -> -30
      [] movement_type = "Rook" -> 50
      [] movement_type = "Cannon" -> 20
      [] movement_type = "Pawn" -> IF col = 0 \/ col = 8 THEN -30 ELSE -50

\* PST_KING .. PST_PAWN, from Red's side: row 0 is Red's back rank.
PstTable(piece_type) ==
    CASE
         piece_type = "King" ->
         <<<<0, 0, 0, 5, 10, 5, 0, 0, 0>>,
            <<0, 0, 0, 5, 10, 5, 0, 0, 0>>,
            <<0, 0, 0, 5, 5, 5, 0, 0, 0>>,
            <<0, 0, 0, 0, 0, 0, 0, 0, 0>>,
            <<0, 0, 0, 0, 0, 0, 0, 0, 0>>,
            <<0, 0, 0, 0, 0, 0, 0, 0, 0>>,
            <<0, 0, 0, 0, 0, 0, 0, 0, 0>>,
            <<0, 0, 0, 0, 0, 0, 0, 0, 0>>,
            <<0, 0, 0, 0, 0, 0, 0, 0, 0>>,
            <<0, 0, 0, 0, 0, 0, 0, 0, 0>> >>
      [] piece_type = "Advisor" ->
         <<<<0, 0, 0, 5, 0, 5, 0, 0, 0>>,
            <<0, 0, 0, 0, 5, 0, 0, 0, 0>>,
            <<0, 0, 0, 5, 0, 5, 0, 0, 0>>,
            <<0, 0, 5, 5, 5, 5, 5, 0, 0>>,
            <<0, 5, 5, 10, 10, 10, 5, 5, 0>>,
            <<5, 5, 10, 10, 15, 10, 10, 5, 5>>,
            <<5, 10, 10, 15, 15, 15, 10, 10, 5>>,
            <<5, 10, 15, 15, 20, 15, 15, 10, 5>>,
            <<5, 10, 15, 20, 20, 20, 15, 10, 5>>,
            <<0, 5, 10, 15, 25, 15, 10, 5, 0>> >>
      [] piece_type = "Elephant" ->
         <<<<0, 0, 5, 0, 0, 0, 5, 0, 0>>,
            <<0, 0, 0, 0, 0, 0, 0, 0, 0>>,
            <<5, 0, 0, 0, 10, 0, 0, 0, 5>>,
            <<0, 0, 0, 0, 0, 0, 0, 0, 0>>,
            <<0, 0, 5, 0, 0, 0, 5, 0, 0>>,
            <<5, 5, 10, 10, 15, 10, 10, 5, 5>>,
            <<5, 10, 10, 15, 15, 15, 10, 10, 5>>,
            <<5, 10, 15, 15, 20, 15, 15, 10, 5>>,
            <<5, 10, 15, 20, 20, 20, 15, 10, 5>>,
            <<0, 5, 10, 15, 25, 15, 10, 5, 0>> >>
      [] piece_type = "Horse" ->
         <<<<0, 0, 5, 10, 10, 10, 5, 0, 0>>,
            <<0, 5, 10, 15, 15, 15, 10, 5, 0>>,
            <<5, 10, 15, 20, 20, 20, 15, 10, 5>>,
            <<5, 10, 15, 20, 25, 20, 15, 10, 5>>,
            <<5, 10, 15, 20, 25, 20, 15, 10, 5>>,
            <<5, 10, 15, 20, 25, 20, 15, 10, 5>>,
            <<10, 15, 20, 25, 30, 25, 20, 15, 10>>,
            <<10, 15, 20, 25, 30, 25, 20, 15, 10>>,
            <<5, 10, 15, 20, 25, 20, 15, 10, 5>>,
            <<0, 5, 10, 15, 20, 15, 10, 5, 0>> >>
      [] piece_type = "Rook" ->
         <<<<10, 10, 10, 15, 15, 15, 10, 10, 10>>,
            <<10, 15, 15, 20, 20, 20, 15, 15, 10>>,
            <<10, 15, 15, 20, 20, 20, 15, 15, 10>>,
            <<10, 15, 15, 20, 20, 20, 15, 15, 10>>,
            <<10, 15, 15, 20, 20, 20, 15, 15, 10>>,
            <<15, 20, 20, 25, 25, 25, 20, 20, 15>>,
            <<15, 20, 20, 25, 25, 25, 20, 20, 15>>,
            <<20, 25, 25, 30, 30, 30, 25, 25, 20>>,
            <<20, 25, 25, 30, 30, 30, 25, 25, 20>>,
            <<15, 20, 20, 25, 25, 25, 20, 20, 15>> >>
      [] piece_type = "Cannon" ->
         <<<<10, 10, 10, 15, 15, 15, 10, 10, 10>>,
            <<10, 15, 15, 20, 20, 20, 15, 15, 10>>,
            <<15, 20, 20, 25, 25, 25, 20, 20, 15>>,
            <<15, 20, 20, 25, 25, 25, 20, 20, 15>>,
            <<15, 20, 20, 25, 25, 25, 20, 20, 15>>,
            <<15, 20, 20, 25, 25, 25, 20, 20, 15>>,
            <<15, 20, 20, 25, 25, 25, 20, 20, 15>>,
            <<15, 20, 20, 25, 25, 25, 20, 20, 15>>,
            <<10, 15, 15, 20, 20, 20, 15, 15, 10>>,
            <<5, 10, 10, 15, 15, 15, 10, 10, 5>> >>
      [] piece_type = "Pawn" ->
         <<<<0, 0, 0, 0, 0, 0, 0, 0, 0>>,
            <<0, 0, 0, 0, 0, 0, 0, 0, 0>>,
            <<0, 0, 0, 0, 0, 0, 0, 0, 0>>,
            <<5, 0, 10, 0, 15, 0, 10, 0, 5>>,
            <<10, 0, 15, 0, 20, 0, 15, 0, 10>>,
            <<15, 20, 25, 30, 35, 30, 25, 20, 15>>,
            <<20, 25, 30, 35, 40, 35, 30, 25, 20>>,
            <<25, 30, 35, 40, 45, 40, 35, 30, 25>>,
            <<30, 35, 40, 45, 50, 45, 40, 35, 30>>,
            <<15, 20, 25, 30, 30, 30, 25, 20, 15>> >>

get_pst_score(piece_type, row, col, is_red) ==
    PstTable(piece_type)[(IF is_red THEN row ELSE 9 - row) + 1][col + 1]

possible_types(d) ==
    IF d.total = 0 \/ sum(d.remaining) = 0 THEN <<>>
    ELSE LET kept == SelectSeq(ALL_PIECE_TYPES, LAMBDA pt : d.remaining[pt] > 0)
         IN [k \in 1..Len(kept) |->
                [piece_type |-> kept[k],
                 probability |-> f64(d.remaining[kept[k]], sum(d.remaining))]]

expected_value(d) ==
    IF sum(d.remaining) = 0 THEN 300
    ELSE sum([t \in PieceTypes |-> d.remaining[t] * ((PIECE_VALUES(t) * 8) \div 10)])
         \div sum(d.remaining)

\* value + pst of one piece, as evaluate's loop computes it.
PieceScore(piece, red_hidden_ev, black_hidden_ev) ==
    IF piece.is_hidden
    THEN (IF piece.color = Red THEN red_hidden_ev ELSE black_hidden_ev)
         + (IF piece.movement_type = NoType THEN 0
            ELSE hidden_position_bonus(piece.movement_type, piece.position.col))
    ELSE IF piece.actual_type # NoType
    THEN PieceType_value(piece.actual_type)
         + get_pst_score(piece.actual_type, piece.position.row, piece.position.col,
                         piece.color = Red)
    ELSE 0

RECURSIVE RawScore(_, _, _, _)
RawScore(pcs, k, red_hidden_ev, black_hidden_ev) ==
    IF k > Len(pcs) THEN 0
    ELSE (IF pcs[k].color = Red THEN PieceScore(pcs[k], red_hidden_ev, black_hidden_ev)
          ELSE -PieceScore(pcs[k], red_hidden_ev, black_hidden_ev))
         + RawScore(pcs, k + 1, red_hidden_ev, black_hidden_ev)

RECURSIVE BestGain(_, _, _, _, _)
BestGain(b, moves, k, victim_hidden_ev, best_gain) ==
    IF k > Len(moves) THEN best_gain
    ELSE LET victim == get_piece(b, moves[k].to_pos)
             victim_value == IF victim.is_hidden THEN victim_hidden_ev
                             ELSE IF victim.actual_type = NoType THEN 0
                             ELSE PieceType_value(victim.actual_type)
         IN IF victim # Empty /\ victim.actual_type # "King" /\ victim_value > best_gain
            THEN BestGain(b, moves, k + 1, victim_hidden_ev, victim_value)
            ELSE BestGain(b, moves, k + 1, victim_hidden_ev, best_gain)

\* The best gain over the legal moves g of the attacker, and the board the
\* in-place get_legal_moves leaves.
CaptureValue(g, victim_hidden_ev) ==
    [value |-> BestGain(g.board, g.moves, 1, victim_hidden_ev, 0), board |-> g.board]

best_capture_value(b, attacker, victim_hidden_ev) ==
    CaptureValue(get_legal_moves_mut(b, attacker), victim_hidden_ev)

\* raw_score += capture_weight * (red_capture - black_capture), 0.3 = 3/10.
RawWith(raw_score, red_capture, black_capture) ==
    [value |-> f64(10 * raw_score + 3 * (red_capture.value - black_capture.value), 10),
     board |-> black_capture.board]

\* black_capture is computed on the board red_capture's move generation left.
RawAfterRed(raw_score, red_capture, red_hidden_ev) ==
    RawWith(raw_score, red_capture,
            best_capture_value(red_capture.board, Black, red_hidden_ev))

\* raw_score (Red minus Black) and the board left.
RawEval(b, red_hidden_ev, black_hidden_ev) ==
    RawAfterRed(RawScore(get_all_pieces(b, NoType), 1, red_hidden_ev, black_hidden_ev),
                best_capture_value(b, Red, black_hidden_ev), red_hidden_ev)

\* The sign of the point of view.
\* FromPov without the change of sign for Black; used to show that the
\* antisymmetry of evaluate depends on the final flip.
FromPov_unflipped(color, raw) == raw

FromPov(color, raw) ==
    [value |-> IF color = Red THEN raw.value ELSE f64_neg(raw.value), board |-> raw.board]

\* evaluate: the score from color's point of view, and the board left.
evaluate(b, color) ==
    FromPov(color, RawEval(b, expected_value(from_board(b, Red)),
                           expected_value(from_board(b, Black))))

\* The match of terminal_eval without the mate-distance term; used to show that
\* the stated scores depend on ply_bonus.
TerminalScore_without_ply(b, color, ply_bonus, result) ==
    CASE result = "RedWin" ->
           [value |-> IF color = Red THEN f64(MATE_SCORE, 1) ELSE f64(-MATE_SCORE, 1),
            board |-> b]
      [] result = "BlackWin" ->
           [value |-> IF color = Black THEN f64(MATE_SCORE, 1) ELSE f64(-MATE_SCORE, 1),
            board |-> b]
      [] result = "Draw" -> [value |-> f64(0, 1), board |-> b]
      [] result = "Ongoing" -> evaluate(b, color)

\* The match of terminal_eval on the game result; b is the board
\* get_game_result left.
TerminalScore(b, color, ply_bonus, result) ==
    CASE result = "RedWin" ->
           [value |-> IF color = Red THEN f64(MATE_SCORE - ply_bonus, 1)
                      ELSE f64(-MATE_SCORE + ply_bonus, 1), board |-> b]
      [] result = "BlackWin" ->
           [value |-> IF color = Black THEN f64(MATE_SCORE - ply_bonus, 1)
                      ELSE f64(-MATE_SCORE + ply_bonus, 1), board |-> b]
      [] result = "Draw" -> [value |-> f64(0, 1), board |-> b]
      [] result = "Ongoing" -> evaluate(b, color)

terminal_eval(b, color, ply) ==
    TerminalScore(get_game_result_board(b), color, ply * PLY_PENALTY, get_game_result(b))

(***************************************************************************)
(* ai/it3/mod.rs: the search.  ai is the IT3AI (max_depth, time_limit);    *)
(* t counts the clock reads made so far: with a time limit the first       *)
(* ai.deadline reads find the budget unspent and every later read finds it *)
(* expired.  Each function returns its value, the new count and the board  *)
(* as the in-place make/undo calls leave it.                               *)
(***************************************************************************)
IT3AI_new(config) ==
    [max_depth |-> IF config.limited THEN 50 ELSE config.depth,
     limited |-> config.limited,
     deadline |-> config.deadline]

is_timeout(ai, t) == ai.limited /\ t >= ai.deadline

SearchContext_new(depth, pov_color) ==
    [depth |-> depth, ply |-> 0, alpha |-> NEG_INFINITY, beta |-> INFINITY,
     pov_color |-> pov_color]

next_ply(ctx) == [ctx EXCEPT !.depth = @ - 1, !.ply = @ + 1]

Result(value, t, b) == [value |-> value, t |-> t, board |-> b]

\* The value and board of an evaluation, at clock count t.
Evaluated(e, t) == Result(e.value, t, e.board)

RECURSIVE expectimax(_, _, _, _)
RECURSIVE MaxLoop(_, _, _, _, _, _, _)
RECURSIVE MinLoop(_, _, _, _, _, _, _)
RECURSIVE Outcomes(_, _, _, _, _, _, _)

\* make_move done: search the child one ply down, then undo_move.
Undone(mv, captured, was_hidden, child) ==
    Result(child.value, child.t, undo_move(child.board, mv, captured, was_hidden))

Recurse(ai, mv, was_hidden, next_ctx, t, made) ==
    Undone(mv, made.captured, was_hidden, expectimax(ai, made.board, next_ctx, t))

apply_move_and_recurse(ai, b, mv, ctx, t) ==
    Recurse(ai, mv, get_piece(b, mv.from_pos).is_hidden, next_ply(ctx), t, make_move(b, mv))

\* One outcome of chance_node's loop: the identity is stipulated, the move is
\* made as a plain Move, the child searched, the move undone, the reveal restored.
Restored(mv, state, r) ==
    Result(r.value, r.t,
           IF state.some THEN restore_simulated_reveal(r.board, mv.from_pos, state)
           ELSE r.board)

Revealed(ai, virtual_move, next_ctx, t, reveal) ==
    Restored(virtual_move, reveal.state,
             Recurse(ai, virtual_move, reveal.state.some, next_ctx, t,
                     make_move(reveal.board, virtual_move)))

Outcome(ai, b, mv, next_ctx, piece_type, t) ==
    Revealed(ai, [mv EXCEPT !.action_type = Move], next_ctx, t,
             simulate_reveal(b, mv.from_pos, piece_type))

\* expected_value += probability * child_value; the outcome r has been
\* searched and undone (its clock count is known) before the next is taken up.
Weighed(ai, mv, next_ctx, types, expected, r) ==
    CASE r.t >= 0 ->
        Outcomes(ai, r.board, mv, next_ctx, Tail(types),
                 f64_add(expected, f64_mul(Head(types).probability, r.value)), r.t)

Outcomes(ai, b, mv, next_ctx, types, expected, t) ==
    IF types = <<>> THEN Result(expected, t, b)
    ELSE Weighed(ai, mv, next_ctx, types, expected,
                 Outcome(ai, b, mv, next_ctx, Head(types).piece_type, t))

\* chance_node with the possible_types of the mover's pool.
ChanceOver(ai, b, mv, ctx, possible, t) ==
    IF possible = <<>> THEN apply_move_and_recurse(ai, b, mv, ctx, t)
    ELSE Outcomes(ai, b, mv, next_ply(ctx), possible, f64(0, 1), t)

chance_node(ai, b, mv, ctx, color, t) ==
    ChanceOver(ai, b, mv, ctx, possible_types(from_board(b, color)), t)

MoveValue(ai, b, mv, ctx, current_color, t) ==
    IF mv.action_type = RevealAndMove
    THEN chance_node(ai, b, mv, ctx, current_color, t)
    ELSE apply_move_and_recurse(ai, b, mv, ctx, t)

\* The body of the MAX loop once the move's eval r is known.
MaxStep(ai, ctx, current_color, rest, max_eval, r) ==
    IF f64_le(ctx.beta, f64_max(max_eval, r.value))
    THEN Result(f64_max(max_eval, r.value), r.t, r.board)
    ELSE MaxLoop(ai, r.board, ctx, current_color, rest, f64_max(max_eval, r.value), r.t)

MaxLoop(ai, b, ctx, current_color, moves, max_eval, t) ==
    IF moves = <<>> THEN Result(max_eval, t, b)
    ELSE MaxStep(ai, ctx, current_color, Tail(moves), max_eval,
                 MoveValue(ai, b, Head(moves), ctx, current_color, t))

\* The body of the MIN loop once the move's eval r is known.
MinStep(ai, ctx, current_color, rest, min_eval, r) ==
    IF f64_le(f64_min(min_eval, r.value), ctx.alpha)
    THEN Result(f64_min(min_eval, r.value), r.t, r.board)
    ELSE MinLoop(ai, r.board, ctx, current_color, rest, f64_min(min_eval, r.value), r.t)

MinLoop(ai, b, ctx, current_color, moves, min_eval, t) ==
    IF moves = <<>> THEN Result(min_eval, t, b)
    ELSE MinStep(ai, ctx, current_color, Tail(moves), min_eval,
                 MoveValue(ai, b, Head(moves), ctx, current_color, t))

\* expectimax past its timeout test, with the legal moves of the side to move.
Expand(ai, g, ctx, current_color, t) ==
    IF ctx.depth <= 0 \/ g.moves = <<>>
    THEN Evaluated(terminal_eval(g.board, ctx.pov_color, ctx.ply), t)
    ELSE IF current_color = ctx.pov_color
    THEN MaxLoop(ai, g.board, ctx, current_color, g.moves, NEG_INFINITY, t)
    ELSE MinLoop(ai, g.board, ctx, current_color, g.moves, INFINITY, t)

expectimax(ai, b, ctx, t) ==
    IF is_timeout(ai, t) THEN Evaluated(evaluate(b, ctx.pov_color), t + 1)
    ELSE Expand(ai, get_legal_moves_mut(b, b.current_turn), ctx, b.current_turn, t + 1)

(***************************************************************************)
(* ai/it2/mod.rs: the IT2 evaluation and the leaf of its negamax search.   *)
(* IT2 differs from IT3 in the pool (no captures), the discount of the     *)
(* expected value and the missing position bonus of hidden pieces.         *)
(***************************************************************************)
it2_expected_value(d) ==
    IF sum(d.remaining) = 0 THEN 300
    ELSE sum([t \in PieceTypes |->
                 d.remaining[t] * (IF t \in {"Rook", "Cannon"} THEN PIECE_VALUES(t)
                                   ELSE (PIECE_VALUES(t) * 7) \div 10)])
         \div sum(d.remaining)

it2_PieceScore(piece, red_hidden_ev, black_hidden_ev) ==
    IF piece.is_hidden
    THEN (IF piece.color = Red THEN red_hidden_ev ELSE black_hidden_ev)
    ELSE IF piece.actual_type # NoType
    THEN PieceType_value(piece.actual_type)
         + get_pst_score(piece.actual_type, piece.position.row, piece.position.col,
                         piece.color = Red)
    ELSE 0

RECURSIVE it2_RawScore(_, _, _, _)
it2_RawScore(pcs, k, red_hidden_ev, black_hidden_ev) ==
    IF k > Len(pcs) THEN 0
    ELSE (IF pcs[k].color = Red THEN it2_PieceScore(pcs[k], red_hidden_ev, black_hidden_ev)
          ELSE -it2_PieceScore(pcs[k], red_hidden_ev, black_hidden_ev))
         + it2_RawScore(pcs, k + 1, red_hidden_ev, black_hidden_ev)

it2_RawEval(b, red_hidden_ev, black_hidden_ev) ==
    RawAfterRed(it2_RawScore(get_all_pieces(b, NoType), 1, red_hidden_ev, black_hidden_ev),
                best_capture_value(b, Red, black_hidden_ev), red_hidden_ev)

it2_evaluate(b, color) ==
    FromPov(color, it2_RawEval(b, it2_expected_value(it2_from_board(b, Red)),
                               it2_expected_value(it2_from_board(b, Black))))

it2_TerminalScore(b, color, ply_bonus, result) ==
    CASE result = "RedWin" ->
           [value |-> IF color = Red THEN f64(MATE_SCORE - ply_bonus, 1)
                      ELSE f64(-MATE_SCORE + ply_bonus, 1), board |-> b]
      [] result = "BlackWin" ->
           [value |-> IF color = Black THEN f64(MATE_SCORE - ply_bonus, 1)
                      ELSE f64(-MATE_SCORE + ply_bonus, 1), board |-> b]
      [] result = "Draw" -> [value |-> f64(0, 1), board |-> b]
      [] result = "Ongoing" -> it2_evaluate(b, color)

it2_terminal_eval(b, color, ply) ==
    it2_TerminalScore(get_game_result_board(b), color, ply * PLY_PENALTY, get_game_result(b))

it2_SearchContext_new(depth) ==
    [depth |-> depth, ply |-> 0, alpha |-> NEG_INFINITY, beta |-> INFINITY]

it2_next_ply(ctx) ==
    [depth |-> ctx.depth - 1, ply |-> ctx.ply + 1,
     alpha |-> f64_neg(ctx.beta), beta |-> f64_neg(ctx.alpha)]

\* expectimax entered with ctx.depth <= 0: the legal moves are generated, then
\* the position is scored for the side to move.
it2_expectimax_leaf(g, current_color, ctx) ==
    it2_terminal_eval(g.board, current_color, ctx.ply)

\* InsertDesc placing x before the entries of equal score; used to show that
\* the order of tied moves depends on the stability of the sort.
RECURSIVE InsertDesc_before_equal(_, _)
InsertDesc_before_equal(sorted, x) ==
    IF sorted = <<>> THEN <<x>>
    ELSE IF f64_le(x.score, Head(sorted).score) /\ x.score # Head(sorted).score
    THEN <<Head(sorted)>> \o InsertDesc_before_equal(Tail(sorted), x)
    ELSE <<x>> \o sorted

\* b.1.partial_cmp(&a.1): a stable sort into descending order of score.
RECURSIVE InsertDesc(_, _)
InsertDesc(sorted, x) ==
    IF sorted = <<>> THEN <<x>>
    ELSE IF f64_le(x.score, Head(sorted).score)
    THEN <<Head(sorted)>> \o InsertDesc(Tail(sorted), x)
    ELSE <<x>> \o sorted

RECURSIVE SortDesc(_, _)
SortDesc(scores, sorted) ==
    IF scores = <<>> THEN sorted
    ELSE SortDesc(Tail(scores), InsertDesc(sorted, Head(scores)))

\* The body of iterative_deepening's loop over the root moves, for one move.
RootScore(ai, b, mv, depth, t) ==
    IF mv.action_type = RevealAndMove
    THEN chance_node(ai, b, mv, SearchContext_new(depth, b.current_turn), b.current_turn, t)
    ELSE expectimax(ai, make_move(b, mv).board,
                    next_ply(SearchContext_new(depth, b.current_turn)), t)

\* select_moves with randomness = 0.0 (the default of AIConfig): the result of
\* iterative_deepening, sorted by descending score (stable) and cut to n moves.
select_moves(best_moves, n) ==
    SubSeq(SortDesc(best_moves, <<>>), 1, min(n, Len(best_moves)))

(***************************************************************************)
(* Positions the board is built from (tests of board.rs, fen.rs, it3, and  *)
(* small positions exercising each piece kind).                            *)
(***************************************************************************)
\* "4k4/9/9/9/4c4/4R4/9/9/9/4K4 -:- r r"
FenCapture ==
    <<"4","k","4","/","9","/","9","/","9","/","4","c","4","/","4","R","4","/","9","/","9","/",
      "9","/","4","K","4"," ","-",":","-"," ","r"," ","r">>

\* "4k4/4R4/9/9/9/9/9/9/9/4K4 -:- b r"
FenCheck ==
    <<"4","k","4","/","4","R","4","/","9","/","9","/","9","/","9","/","9","/","9","/","9","/",
      "4","K","4"," ","-",":","-"," ","b"," ","r">>

\* "4k4/9/9/9/9/9/9/9/9/4K4 -:- r r"
FenFacing ==
    <<"4","k","4","/","9","/","9","/","9","/","9","/","9","/","9","/","9","/","9","/","4","K",
      "4"," ","-",":","-"," ","r"," ","r">>

\* "3xkx3/9/7x1/4r4/9/9/X3X4/1X7/9/3XKX3 -:- r r"
FenHidden ==
    <<"3","x","k","x","3","/","9","/","7","x","1","/","4","r","4","/","9","/","9","/","X","3",
      "X","4","/","1","X","7","/","9","/","3","X","K","X","3"," ","-",":","-"," ","r"," ","r">>

\* "R3k4/1R7/9/9/9/9/9/9/9/3K5 -:- b r"
FenMate ==
    <<"R","3","k","4","/","1","R","7","/","9","/","9","/","9","/","9","/","9","/","9","/","9",
      "/","3","K","5"," ","-",":","-"," ","b"," ","r">>

\* "3k5/R8/9/9/9/9/9/9/4R4/5K3 -:- b r"
FenStalemate ==
    <<"3","k","5","/","R","8","/","9","/","9","/","9","/","9","/","9","/","9","/","4","R","4",
      "/","5","K","3"," ","-",":","-"," ","b"," ","r">>

\* "2e1k4/9/4c4/9/2h3P2/4H4/2p6/4C4/9/2E1K4 -:- r b"
FenMixed ==
    <<"2","e","1","k","4","/","9","/","4","c","4","/","9","/","2","h","3","P","2","/","4","H",
      "4","/","2","p","6","/","4","C","4","/","9","/","2","E","1","K","4"," ","-",":","-"," ",
      "r"," ","b">>

\* "4x4/9/9/9/9/9/9/9/9/3XX4 -:- r r"
FenHiddenKings ==
    <<"4","x","4","/","9","/","9","/","9","/","9","/","9","/","9","/","9","/","9","/","3","X",
      "X","4"," ","-",":","-"," ","r"," ","r">>

\* "4k4/9/9/9/9/9/9/9/9/3KK4 -:- r r"
FenTwoKings ==
    <<"4","k","4","/","9","/","9","/","9","/","9","/","9","/","9","/","9","/","9","/","3","K",
      "K","4"," ","-",":","-"," ","r"," ","r">>

\* "9/9/9/9/4p4/4R4/9/9/9/9 -:- r r"
FenNoKings ==
    <<"9","/","9","/","9","/","9","/","4","p","4","/","4","R","4","/","9","/","9","/","9","/",
      "9"," ","-",":","-"," ","r"," ","r">>

\* "4k4/9/3R5/x1x3x1x/4X4/4x4/X1X3X1X/1C5C1/9/4K4 RP??:raHC r r"
FenMidGame ==
    <<"4","k","4","/","9","/","3","R","5","/","x","1","x","3","x","1","x","/","4","X","4","/",
      "4","x","4","/","X","1","X","3","X","1","X","/","1","C","5","C","1","/","9","/","4","K",
      "4"," ","R","P","?","?",":","r","a","H","C"," ","r"," ","r">>

\* "3rk4/9/9/9/9/9/9/9/9/4K4 -:- r r"
FenGuardedKing ==
    <<"3","r","k","4","/","9","/","9","/","9","/","9","/","9","/","9","/","9","/","9","/","4",
      "K","4"," ","-",":","-"," ","r"," ","r">>

Corpus ==
    <<FenGuardedKing,
      FenCapture,
      FenCheck,
      FenFacing,
      FenHidden,
      FenMate,
      FenStalemate,
      FenMixed,
      FenHiddenKings,
      FenTwoKings,
      FenNoKings,
      FenMidGame>>

(***************************************************************************)
(* The board under make_move / undo_move                                   *)
(***************************************************************************)
MaxPly == 1

VARIABLES
    fen,        \* the FEN text the board was built from
    board,      \* the Board (or Err when from_fen rejected the text)
    stack,      \* frames kept by the caller for undo_move
    last,       \* the last Board call and its arguments
    text,       \* FEN codec: the text handed to parse_fen
    parsed,     \* FEN codec: the result of parse_fen
    emitted,    \* FEN codec: the text pieces_to_fen returned
    game,       \* play: the FEN of the game and the number of moves applied
    search      \* search: the IT3AI, its board and the locals of iterative_deepening

vars == <<fen, board, stack, last, text, parsed, emitted, game, search>>
boardVars == <<fen, board, stack, last>>
fenVars == <<text, parsed, emitted>>

NotRun == [done |-> FALSE]
BoardIdle == fen = <<>> /\ board = Err /\ stack = <<>> /\ last = [op |-> "idle"]
FenIdle == text = <<>> /\ parsed = NotRun /\ emitted = NotRun
GameIdle == game = [fen |-> <<>>, ply |-> 0]
SearchIdle == search = [phase |-> "idle"]

\* No piece on the board makes get_movement_type panic.
BoardSound(b) ==
    \A i \in 0..89 : b.squares[i] # Empty => get_movement_type(b.squares[i]) # Panic

Init ==
    /\ fen \in {Corpus[i] : i \in 1..Len(Corpus)}
    /\ board = from_fen(fen)
    /\ stack = <<>>
    /\ last = [op |-> "from_fen"]
    /\ FenIdle /\ GameIdle /\ SearchIdle

\* get_legal_moves(color) followed by make_move of its i-th move: the board
\* reached, the frame the caller keeps for undo_move, and the record of the call.
MakeOne(g, color, i) ==
    LET mv == g.moves[i]
        was_hidden == get_piece(g.board, mv.from_pos).is_hidden
        made == make_move(g.board, mv)
    IN [board |-> made.board,
        frame |-> [mv |-> mv, captured |-> made.captured, was_hidden |-> was_hidden,
                   before |-> g.board],
        last |-> [op |-> "make_move", color |-> color, mv |-> mv,
                  captured |-> made.captured, was_hidden |-> was_hidden]]

MakeResults(b, color) ==
    LET g == get_legal_moves_mut(b, color)
    IN {MakeOne(g, color, i) : i \in 1..Len(g.moves)}

MakeMove ==
    /\ board.ok /\ BoardSound(board) /\ Len(stack) < MaxPly
    /\ \E color \in Colors :
          \E r \in MakeResults(board, color) :
              /\ board' = r.board
              /\ stack' = Append(stack, r.frame)
              /\ last' = r.last
    /\ UNCHANGED <<fen, fenVars, game, search>>

\* undo_move with the captured piece and the was_hidden flag of the matching make_move.
UndoMove ==
    /\ stack # <<>>
    /\ LET top == stack[Len(stack)] IN
       /\ board' = undo_move(board, top.mv, top.captured, top.was_hidden)
       /\ last' = [op |-> "undo_move", was_hidden |-> top.was_hidden,
                   before |-> top.before]
    /\ stack' = SubSeq(stack, 1, Len(stack) - 1)
    /\ UNCHANGED <<fen, fenVars, game, search>>

\* get_legal_moves on a board holding a piece without a movement type panics.
PanicStep ==
    /\ board.ok /\ ~BoardSound(board) /\ last.op # "panic"
    /\ last' = [op |-> "panic"]
    /\ UNCHANGED <<fen, board, stack, fenVars, game, search>>

Next == MakeMove \/ UndoMove \/ PanicStep

Spec == Init /\ [][Next]_vars
(***************************************************************************)
(* The FEN codec: parse_fen followed by pieces_to_fen                      *)
(***************************************************************************)
MaxCaptured == 2

\* The k-th whitespace-separated field of a FEN text.
Field(s, k) == split_whitespace(s)[k]

\* A board field that spells a run of nine empty squares as "45".
NonCanonicalBoard ==
    <<"4","k","4","/","4","5","/","9","/","9","/","9","/","9","/","9","/","9","/","9","/",
      "4","K","4">>

FenBoards == {Field(FenMidGame, 1), Field(FenMixed, 1), NonCanonicalBoard}
CapturedChars == {"R", "p", "?"}
CapturedFields ==
    {<<"-">>} \cup UNION {[1..k -> CapturedChars] : k \in 1..MaxCaptured}
TurnChars == {"r", "b", "w"}
ViewerChars == {"r", "b"}

FenTexts ==
    {b \o <<" ">> \o rc \o <<":">> \o bc \o <<" ", t, " ", v>> :
        b \in FenBoards, rc \in CapturedFields, bc \in CapturedFields,
        t \in TurnChars, v \in ViewerChars}

\* Texts off the format: a second board row that does not spell nine squares
\* or holds a foreign character, a board of nine or eleven rows, a turn or
\* viewer field that is not one letter, and three or five fields.
OddRows == {<<"9">>, <<"8">>, <<"5", "5">>, <<"9", "K">>, <<"9", "!">>, <<"4", "!", "4">>}
OddTails == {<<"/", "4", "K", "4">>, <<"/", "9", "/", "4", "K", "4">>, <<"/", "4", "K", "4", "/", "9">>}
OddTurns == {<<"r">>, <<"b">>, <<"w">>, <<"r", "b">>}
OddViewers == {<<"r">>, <<"w">>, <<"b", "x">>}
OddEnds == {<<>>, <<" ", "r">>}

OddBoard(row, tail) ==
    <<"4", "k", "4", "/">> \o row
    \o <<"/", "9", "/", "9", "/", "9", "/", "9", "/", "9", "/", "9", "/", "9">> \o tail

OddTexts ==
    {OddBoard(row, tail) \o <<" ", "-", ":", "-", " ">> \o t \o <<" ">> \o v \o e :
        row \in OddRows, tail \in OddTails, t \in OddTurns, v \in OddViewers, e \in OddEnds}
    \cup {OddBoard(<<"9">>, <<"/", "4", "K", "4">>) \o <<" ", "-", ":", "-", " ", "r">>}

InitFen ==
    /\ text \in FenTexts \cup {FenMidGame} \cup OddTexts
    /\ parsed = NotRun
    /\ emitted = NotRun
    /\ BoardIdle /\ GameIdle /\ SearchIdle

ParseFen ==
    /\ text # <<>> /\ ~parsed.done
    /\ parsed' = [done |-> TRUE, result |-> parse_fen(text)]
    /\ UNCHANGED <<text, emitted, boardVars, game, search>>

EmitFen ==
    /\ parsed.done /\ parsed.result.ok /\ ~emitted.done
    /\ emitted' = [done |-> TRUE,
                   text |-> pieces_to_fen(parsed.result.pieces, parsed.result.captured,
                                          parsed.result.turn, parsed.result.viewer)]
    /\ UNCHANGED <<text, parsed, boardVars, game, search>>

NextFen == ParseFen \/ EmitFen

SpecFen == InitFen /\ [][NextFen]_vars

(***************************************************************************)
(* Play: a game advanced by apply_move_to_fen, one legal move at a time    *)
(***************************************************************************)
MaxGamePly == 2

\* Mid-game positions with every capture entered in the captured record: per
\* color, pieces on the board plus captured entries number sixteen.
\* "3k5/9/9/r7x/9/9/X7X/9/9/4K4 AAEEHHRCCPPPP:aaeehhrcppppp b r"
PlayFenA ==
    <<"3","k","5","/","9","/","9","/","r","7","x","/","9","/","9","/","X","7","X","/","9","/",
      "9","/","4","K","4"," ","A","A","E","E","H","H","R","C","C","P","P","P","P",":","a","a",
      "e","e","h","h","r","c","p","p","p","p","p"," ","b"," ","r">>
\* "3k5/9/9/r8/9/9/X8/9/9/4K4 AAEEHHRRCCPPPP:aaeehhrccppppp b r"
PlayFenB ==
    <<"3","k","5","/","9","/","9","/","r","8","/","9","/","9","/","X","8","/","9","/","9","/",
      "4","K","4"," ","A","A","E","E","H","H","R","R","C","C","P","P","P","P",":","a","a","e",
      "e","h","h","r","c","c","p","p","p","p","p"," ","b"," ","r">>
\* "3k5/9/9/8x/1h7/4R4/X1X6/9/9/4K4 AAEEHHCPPPP?:aaeehrrccpppp r r"
PlayFenC ==
    <<"3","k","5","/","9","/","9","/","8","x","/","1","h","7","/","4","R","4","/","X","1","X",
      "6","/","9","/","9","/","4","K","4"," ","A","A","E","E","H","H","C","P","P","P","P","?",
      ":","a","a","e","e","h","r","r","c","c","p","p","p","p"," ","r"," ","r">>

PlayFens == {PlayFenA, PlayFenB, PlayFenC}

InitPlay ==
    /\ game \in {[fen |-> f, ply |-> 0] : f \in PlayFens}
    /\ BoardIdle /\ FenIdle /\ SearchIdle

\* The identities a piece revealed by the color can turn out to have: the types
\* not yet accounted for by revealed pieces and known captures.
RevealTypes(b, color) ==
    LET S == {t \in PieceTypes : remaining_before(b, color)[t] > 0}
    IN IF S = {} THEN {NoType} ELSE S

\* The FEN texts one legal move of the side to move leads to.
PlayFrom(f, b, moves) ==
    {apply_move_to_fen(f, JieqiMove_to_fen_str(moves[i], NoType), rt) :
        i \in 1..Len(moves), rt \in RevealTypes(b, b.current_turn)}

PlayOn(f, b) ==
    IF ~b.ok THEN {}
    ELSE IF ~BoardSound(b) THEN {}
    ELSE PlayFrom(f, b, get_legal_moves(b, b.current_turn))

PlayResults(f) == PlayOn(f, from_fen(f))

Play ==
    /\ game.ply < MaxGamePly
    /\ \E r \in PlayResults(game.fen) :
          /\ r.ok
          /\ game' = [fen |-> r.fen, ply |-> game.ply + 1]
    /\ UNCHANGED <<boardVars, fenVars, search>>

NextPlay == Play

SpecPlay == InitPlay /\ [][NextPlay]_vars

(***************************************************************************)
(* Submit: a caller hands apply_move_to_fen any well-formed move text and  *)
(* keeps the FEN it holds unless a new one is returned.                    *)
(***************************************************************************)
MaxSubmitPly == 1

SubmitFens == PlayFens \cup {FenCapture, FenMidGame}

\* The steps a submitted move takes from its from-square.
Steps == {d \in {-1, 0, 1} \X {-1, 0, 1} : d # <<0, 0>>}

\* The moves submitted on a position: from every occupied square and from the
\* empty square a4, one step in any direction, as a plain or a reveal move.
SubmitMoves(state) ==
    {JieqiMove(a, p, offset(p, d[1], d[2])) :
        a \in {Move, RevealAndMove},
        p \in {state.pieces[k].position : k \in 1..Len(state.pieces)}
                 \cup {[row |-> 4, col |-> 0]},
        d \in Steps}

SubmitTypes == {NoType, "Pawn"}

InitSubmit ==
    /\ game \in {[fen |-> f, ply |-> 0, prev |-> <<>>, mv |-> JieqiMove(Move, NoPos, NoPos),
                  revealed_type |-> NoType, returned |-> "none"] : f \in SubmitFens}
    /\ BoardIdle /\ FenIdle /\ SearchIdle

\* apply_move_to_fen returned Ok(new_fen): the caller goes on with the new FEN.
Accepted ==
    /\ game.ply < MaxSubmitPly
    /\ \E mv \in {m \in SubmitMoves(parse_fen(game.fen)) : is_valid(m.to_pos)},
          rt \in SubmitTypes :
          /\ apply_move_to_fen(game.fen, JieqiMove_to_fen_str(mv, NoType), rt).ok
          /\ game' = [fen |-> apply_move_to_fen(game.fen, JieqiMove_to_fen_str(mv, NoType),
                                               rt).fen,
                      ply |-> game.ply + 1, prev |-> game.fen, mv |-> mv,
                      revealed_type |-> rt, returned |-> "Ok"]
    /\ UNCHANGED <<boardVars, fenVars, search>>

\* apply_move_to_fen returned Err: the caller keeps the FEN it had.
Rejected ==
    /\ game.ply < MaxSubmitPly
    /\ \E mv \in {m \in SubmitMoves(parse_fen(game.fen)) : is_valid(m.to_pos)},
          rt \in SubmitTypes :
          /\ ~apply_move_to_fen(game.fen, JieqiMove_to_fen_str(mv, NoType), rt).ok
          /\ game' = [fen |-> game.fen, ply |-> game.ply + 1, prev |-> game.fen, mv |-> mv,
                      revealed_type |-> rt, returned |-> "Err"]
    /\ UNCHANGED <<boardVars, fenVars, search>>

NextSubmit == Accepted \/ Rejected

SpecSubmit == InitSubmit /\ [][NextSubmit]_vars

(***************************************************************************)
(* ai/it3/mod.rs: iterative_deepening, one step per loop test and per root *)
(* move searched.                                                          *)
(***************************************************************************)
MaxDepth == 3
MaxDeadline == 12

\* "3k5/9/9/4p4/9/9/X3X4/9/9/4K4 AEEHHRRCCPPPP:aaeehhrrccpppp r r"
SearchFenA ==
    <<"3","k","5","/","9","/","9","/","4","p","4","/","9","/","9","/","X","3","X","4","/","9","/","9","/","4","K","4"," ","A","E","E","H","H","R","R","C","C","P","P","P","P",":","a","a","e","e","h","h","r","r","c","c","p","p","p","p"," ","r"," ","r">>

\* "4k4/9/9/x3x4/9/9/4P4/9/9/3K5 AAEEHHRRCCPPPP:aaeehrrccpppp b b"
SearchFenB ==
    <<"4","k","4","/","9","/","9","/","x","3","x","4","/","9","/","9","/","4","P","4","/","9","/","9","/","3","K","5"," ","A","A","E","E","H","H","R","R","C","C","P","P","P","P",":","a","a","e","e","h","r","r","c","c","p","p","p","p"," ","b"," ","b">>

\* "4k4/4P4/9/9/9/9/9/9/9/3K5 AAEEHHRRCCPPPP:aaeehhrrccppppp r r"
SearchFenC ==
    <<"4","k","4","/","4","P","4","/","9","/","9","/","9","/","9","/","9","/","9","/","9","/","3","K","5"," ","A","A","E","E","H","H","R","R","C","C","P","P","P","P",":","a","a","e","e","h","h","r","r","c","c","p","p","p","p","p"," ","r"," ","r">>

\* "3k5/9/9/9/p8/9/X8/4p4/4P4/3XXX3 EEHHRRCCPPP:aaeehhrrccppp r r"
SearchFenD ==
    <<"3","k","5","/","9","/","9","/","9","/","p","8","/","9","/","X","8","/","4","p","4","/","4","P","4","/","3","X","X","X","3"," ","E","E","H","H","R","R","C","C","P","P","P",":","a","a","e","e","h","h","r","r","c","c","p","p","p"," ","r"," ","r">>

\* "9/9/9/9/9/9/9/9/4P4/4K4 AAEEHHRRCCPPPP:kaaeehhrrccppppp r r"
SearchFenE ==
    <<"9","/","9","/","9","/","9","/","9","/","9","/","9","/","9","/","4","P","4","/","4","K","4"," ","A","A","E","E","H","H","R","R","C","C","P","P","P","P",":","k","a","a","e","e","h","h","r","r","c","c","p","p","p","p","p"," ","r"," ","r">>

SearchFens == {SearchFenA, SearchFenB, SearchFenC, SearchFenD, SearchFenE, FenMate}

\* AIConfig: a fixed depth without a time limit, or a time limit whose budget
\* is spent after `deadline` clock reads.
Configs ==
    {[depth |-> d, limited |-> FALSE, deadline |-> 0] : d \in 1..MaxDepth}
    \cup {[depth |-> MaxDepth, limited |-> TRUE, deadline |-> k] : k \in 0..MaxDeadline}

InitSearch ==
    /\ search \in {[phase |-> "start", ai |-> IT3AI_new(c), board |-> from_fen(f),
                    moves |-> <<>>, depth |-> 0, depth_reached |-> 0,
                    current_scores |-> <<>>, best_moves |-> <<>>,
                    best_depth |-> 0, best_t |-> 0, t |-> 0, t0 |-> 0]
                   : c \in Configs, f \in SearchFens}
    /\ BoardIdle /\ FenIdle /\ GameIdle

\* iterative_deepening up to its loop: the root moves, the zero-scored ranking.
Started(s, g) ==
    IF g.moves = <<>> THEN [s EXCEPT !.phase = "done", !.board = g.board]
    ELSE [s EXCEPT !.phase = "depth", !.board = g.board, !.moves = g.moves, !.depth = 1,
                   !.best_moves = [k \in 1..Len(g.moves) |->
                                      [mv |-> g.moves[k], score |-> f64(0, 1)]]]

Start ==
    /\ search.phase = "start"
    /\ search' = Started(search, get_legal_moves_mut(search.board, search.board.current_turn))
    /\ UNCHANGED <<boardVars, fenVars, game>>

\* for depth in 1..=max_depth, and the time test at the head of its body.
DepthCheck ==
    /\ search.phase = "depth"
    /\ search' = IF search.depth > search.ai.max_depth THEN [search EXCEPT !.phase = "done"]
                 ELSE IF is_timeout(search.ai, search.t)
                 THEN [search EXCEPT !.phase = "done", !.t = @ + 1]
                 ELSE [search EXCEPT !.phase = "move", !.t = @ + 1,
                                     !.depth_reached = search.depth,
                                     !.current_scores = <<>>]
    /\ UNCHANGED <<boardVars, fenVars, game>>

\* One root move: the time test, the search on a copy of the board, the push.
Scored(s, mv, r) ==
    [s EXCEPT !.current_scores = Append(@, [mv |-> mv, score |-> r.value]),
              !.t = r.t, !.t0 = s.t + 1,
              !.phase = IF Len(s.current_scores) + 1 = Len(s.moves) THEN "end" ELSE "move"]

RootMove ==
    /\ search.phase = "move"
    /\ search' = IF is_timeout(search.ai, search.t)
                 THEN [search EXCEPT !.phase = "end", !.t = @ + 1]
                 ELSE Scored(search, search.moves[Len(search.current_scores) + 1],
                             RootScore(search.ai, search.board,
                                       search.moves[Len(search.current_scores) + 1],
                                       search.depth, search.t + 1))
    /\ UNCHANGED <<boardVars, fenVars, game>>

\* The end of the loop body: publish the sorted scores when every move has one.
EndDepth ==
    /\ search.phase = "end"
    /\ search' = IF Len(search.current_scores) = Len(search.moves)
                 THEN [search EXCEPT !.phase = "depth", !.depth = @ + 1,
                                     !.best_moves = SortDesc(search.current_scores, <<>>),
                                     !.best_depth = search.depth, !.best_t = search.t]
                 ELSE [search EXCEPT !.phase = "depth", !.depth = @ + 1]
    /\ UNCHANGED <<boardVars, fenVars, game>>

NextSearch == Start \/ DepthCheck \/ RootMove \/ EndDepth

SpecSearch == InitSearch /\ [][NextSearch]_vars

(***************************************************************************)
(* make_move called with any move between neighbouring squares, whether or *)
(* not a piece stands on the from-square                                   *)
(***************************************************************************)
AnyMoves ==
    {JieqiMove(a, from_index(i), offset(from_index(i), d[1], d[2])) :
        a \in {Move, RevealAndMove}, i \in 0..89, d \in Steps}

MakeMoveAny ==
    /\ board.ok /\ BoardSound(board) /\ last.op = "from_fen"
    /\ \E mv \in {m \in AnyMoves : is_valid(m.to_pos)} :
          /\ board' = make_move(board, mv).board
          /\ last' = [op |-> "make_move_any", mv |-> mv,
                      captured |-> make_move(board, mv).captured, before |-> board]
    /\ UNCHANGED <<fen, stack, fenVars, game, search>>

NextCall == MakeMoveAny

SpecCall == Init /\ [][NextCall]_vars

(***************************************************************************)
(* ai/it3/mod.rs: chance_node on a reveal move of the side to move, one    *)
(* step per half of the loop body: the child position is made, then it is  *)
(* searched, unmade and weighed.                                           *)
(***************************************************************************)
ChanceFens == SearchFens

\* virtual_move without the change of the action type; used to show that the
\* stipulated identity depends on it.
virtual_move_as_reveal(mv) == mv

\* let mut virtual_move = *mv; virtual_move.action_type = ActionType::Move
virtual_move(mv) == [mv EXCEPT !.action_type = Move]

InitChance ==
    /\ search \in {[phase |-> "node", ai |-> IT3AI_new(c), board |-> from_fen(f),
                    entry |-> from_fen(f), before |-> from_fen(f),
                    mv |-> JieqiMove(Move, NoPos, NoPos),
                    ctx |-> SearchContext_new(c.depth, from_fen(f).current_turn),
                    types |-> <<>>, expected |-> f64(0, 1), piece_type |-> NoType,
                    state |-> NoState, captured |-> Empty, t |-> 0]
                   : c \in Configs, f \in ChanceFens}
    /\ BoardIdle /\ FenIdle /\ GameIdle

\* chance_node up to its loop, for the reveal move mv of the legal moves g.
EnteredLeaf(s, g, mv, r) ==
    [s EXCEPT !.phase = "done", !.mv = mv, !.entry = g.board, !.board = r.board,
              !.expected = r.value, !.t = r.t]

Entered(s, g, mv, possible) ==
    IF possible = <<>>
    THEN EnteredLeaf(s, g, mv, apply_move_and_recurse(s.ai, g.board, mv, s.ctx, s.t))
    ELSE [s EXCEPT !.phase = "outcome", !.mv = mv, !.entry = g.board, !.board = g.board,
                   !.types = possible]

\* One entry per reveal move of the legal moves g.
EnteredAny(s, g, possible) ==
    {Entered(s, g, g.moves[i], possible) :
        i \in {j \in 1..Len(g.moves) : g.moves[j].action_type = RevealAndMove}}

EnteredOn(s, g) ==
    IF g.moves = <<>> THEN {}
    ELSE EnteredAny(s, g, possible_types(from_board(g.board, g.board.current_turn)))

EnterChance ==
    /\ search.phase = "node"
    /\ search' \in EnteredOn(search,
                             get_legal_moves_mut(search.board, search.board.current_turn))
    /\ UNCHANGED <<boardVars, fenVars, game>>

\* Steps 1 and 2 of the loop body: simulate_reveal, then make_move of the
\* virtual move.
Stipulated(s, reveal, made) ==
    [s EXCEPT !.phase = "child", !.before = s.board, !.board = made.board,
              !.piece_type = Head(s.types).piece_type, !.state = reveal.state,
              !.captured = made.captured]

StipulatedOn(s, mv, reveal) == Stipulated(s, reveal, make_move(reveal.board, mv))

Stipulate ==
    /\ search.phase = "outcome"
    /\ search' = StipulatedOn(search, virtual_move(search.mv),
                               simulate_reveal(search.board, search.mv.from_pos,
                                               Head(search.types).piece_type))
    /\ UNCHANGED <<boardVars, fenVars, game>>

\* Steps 3 to 6: the child is searched, the move undone, the reveal restored
\* and the value weighed.
Resumed(s, r) ==
    [s EXCEPT !.phase = IF Len(s.types) = 1 THEN "done" ELSE "outcome",
              !.board = r.board, !.t = r.t, !.types = Tail(s.types),
              !.expected = f64_add(s.expected, f64_mul(Head(s.types).probability, r.value))]

Resume ==
    /\ search.phase = "child"
    /\ search' = Resumed(search,
                         Restored(search.mv, search.state,
                                  Undone(virtual_move(search.mv), search.captured,
                                         search.state.some,
                                         expectimax(search.ai, search.board,
                                                    next_ply(search.ctx), search.t))))
    /\ UNCHANGED <<boardVars, fenVars, game>>

NextChance == EnterChance \/ Stipulate \/ Resume

SpecChance == InitChance /\ [][NextChance]_vars

(***************************************************************************)
(* ai/it2/mod.rs: chance_node of the default strategy on a reveal move of  *)
(* the side to move, called at depth 1 (the first iteration of the root),  *)
(* one step per half of the loop body.                                     *)
(***************************************************************************)
Chance2Fens == ChanceFens \cup PlayFens \cup {FenHidden, FenHiddenKings, FenMidGame}

InitChance2 ==
    /\ search \in {[phase |-> "node", board |-> from_fen(f), entry |-> from_fen(f),
                    mv |-> JieqiMove(Move, NoPos, NoPos), ctx |-> it2_SearchContext_new(1),
                    types |-> <<>>, expected |-> f64(0, 1), piece_type |-> NoType,
                    state |-> NoState, captured |-> Empty]
                   : f \in Chance2Fens}
    /\ BoardIdle /\ FenIdle /\ GameIdle

\* apply_move_and_recurse: the fallback of chance_node on an empty pool.
it2_Recursed(mv, was_hidden, made, leaf) ==
    [value |-> f64_neg(leaf.value),
     board |-> undo_move(leaf.board, mv, made.captured, was_hidden)]

it2_apply_move_and_recurse(b, mv, ctx, was_hidden, made) ==
    it2_Recursed(mv, was_hidden, made,
                 it2_expectimax_leaf(get_legal_moves_mut(made.board, made.board.current_turn),
                                     made.board.current_turn, it2_next_ply(ctx)))

Entered2Leaf(s, g, mv, r) ==
    [s EXCEPT !.phase = "done", !.mv = mv, !.entry = g.board, !.board = r.board,
              !.expected = r.value]

Entered2(s, g, mv, possible) ==
    IF possible = <<>>
    THEN Entered2Leaf(s, g, mv,
                      it2_apply_move_and_recurse(g.board, mv, s.ctx,
                                                 get_piece(g.board, mv.from_pos).is_hidden,
                                                 make_move(g.board, mv)))
    ELSE [s EXCEPT !.phase = "outcome", !.mv = mv, !.entry = g.board, !.board = g.board,
                   !.types = possible]

Entered2Any(s, g, possible) ==
    {Entered2(s, g, g.moves[i], possible) :
        i \in {j \in 1..Len(g.moves) : g.moves[j].action_type = RevealAndMove}}

Entered2On(s, g) ==
    IF g.moves = <<>> THEN {}
    ELSE Entered2Any(s, g, possible_types(it2_from_board(g.board, g.board.current_turn)))

EnterChance2 ==
    /\ search.phase = "node"
    /\ search.board.ok /\ BoardSound(search.board)
    /\ search' \in Entered2On(search,
                              get_legal_moves_mut(search.board, search.board.current_turn))
    /\ UNCHANGED <<boardVars, fenVars, game>>

\* Steps 1 and 2 of the loop body: simulate_reveal, then make_move(mv).
Stipulate2 ==
    /\ search.phase = "outcome"
    /\ search' = StipulatedOn(search, search.mv,
                               simulate_reveal(search.board, search.mv.from_pos,
                                               Head(search.types).piece_type))
    /\ UNCHANGED <<boardVars, fenVars, game>>

\* Steps 3 to 6: the child is searched (a leaf at this depth), the move
\* undone, the reveal restored and the negated value weighed.
Resumed2(s, leaf) ==
    [s EXCEPT !.phase = IF Len(s.types) = 1 THEN "done" ELSE "outcome",
              !.board = IF s.state.some
                        THEN restore_simulated_reveal(
                                 undo_move(leaf.board, s.mv, s.captured, s.state.some),
                                 s.mv.from_pos, s.state)
                        ELSE undo_move(leaf.board, s.mv, s.captured, s.state.some),
              !.types = Tail(s.types),
              !.expected = f64_add(s.expected, f64_mul(Head(s.types).probability,
                                                       f64_neg(leaf.value)))]

Resume2 ==
    /\ search.phase = "child"
    /\ search' = Resumed2(search,
                          it2_expectimax_leaf(
                              get_legal_moves_mut(search.board, search.board.current_turn),
                              search.board.current_turn, it2_next_ply(search.ctx)))
    /\ UNCHANGED <<boardVars, fenVars, game>>

NextChance2 == EnterChance2 \/ Stipulate2 \/ Resume2

SpecChance2 == InitChance2 /\ [][NextChance2]_vars

(***************************************************************************)
(* terminal_eval called on a position, for either point of view and at any *)
(* ply of the search.                                                      *)
(***************************************************************************)
MaxEvalPly == 3

EvalFens == {Corpus[i] : i \in 1..Len(Corpus)} \cup PlayFens \cup SearchFens

InitEval ==
    /\ fen \in EvalFens
    /\ board = from_fen(fen)
    /\ stack = <<>>
    /\ last = [op |-> "from_fen"]
    /\ FenIdle /\ GameIdle /\ SearchIdle

\* The call, its arguments and its value; before is the board handed in.
TerminalEvalCall(b, color, ply, e) ==
    [op |-> "terminal_eval", color |-> color, ply |-> ply, value |-> e.value, before |-> b]

TerminalEval ==
    /\ board.ok /\ BoardSound(board) /\ last.op = "from_fen"
    /\ \E color \in Colors, ply \in 0..MaxEvalPly :
          /\ last' = TerminalEvalCall(board, color, ply, terminal_eval(board, color, ply))
          /\ board' = terminal_eval(board, color, ply).board
    /\ UNCHANGED <<fen, stack, fenVars, game, search>>

NextEval == TerminalEval

SpecEval == InitEval /\ [][NextEval]_vars

(***************************************************************************)
(* Properties of the board under make_move / undo_move                     *)
(***************************************************************************)
\* Squares holding a king of the color, by effective (movement) type.
KingSquares(b, color) ==
    {i \in 0..89 : /\ b.squares[i] # Empty
                   /\ b.squares[i].color = color
                   /\ get_movement_type(b.squares[i]) = "King"}

OneKingPerColor(b) == \A c \in Colors : Cardinality(KingSquares(b, c)) <= 1

\* The square of the one king of the color (boards with one king per color).
KingSquare(b, color) == from_index(CHOOSE i \in KingSquares(b, color) : TRUE)

BothKings(b) == \A c \in Colors : Cardinality(KingSquares(b, c)) = 1

Playable == board.ok /\ BoardSound(board)

\* C1 (as stated): for every board built by from_fen and every move returned by
\* get_legal_moves for either color, make_move followed by undo_move (with the
\* captured piece and the was_hidden flag recorded before the move) leaves the
\* board identical to the one before: squares, both king caches, side to move.
C1_UndoRestoresBoard ==
    last.op = "undo_move" => board = last.before

\* C1 (amended): the same, for boards holding at most one king per color.
C1_UndoRestoresBoardOneKing ==
    (last.op = "undo_move" /\ OneKingPerColor(last.before)) => board = last.before

\* C1 witness: a reveal move of a one-king board has been made and undone.
C1_RevealUndone ==
    /\ last.op = "undo_move"
    /\ OneKingPerColor(last.before)
    /\ last.was_hidden
    /\ board = last.before

\* C2: after make_move of a move returned by get_legal_moves(c), the square of
\* c's king is not attacked by the opponent of c.  "c's king" presupposes that c
\* has a single king on the board; the king is located by the squares, not by
\* the cache.
C2_LegalMoveKeepsKingSafe ==
    (last.op = "make_move" /\ Cardinality(KingSquares(board, last.color)) <= 1)
    => \A i \in KingSquares(board, last.color) :
           ~is_position_attacked(board, from_index(i), opposite(last.color))

\* C2 witness: the side was in check, played a move returned by get_legal_moves,
\* and its king is no longer attacked.
C2_EscapedCheck ==
    /\ last.op = "make_move"
    /\ Cardinality(KingSquares(board, last.color)) = 1
    /\ is_in_check(stack[Len(stack)].before, last.color)
    /\ \A i \in KingSquares(board, last.color) :
           ~is_position_attacked(board, from_index(i), opposite(last.color))

\* The square of the color's king by effective type, read off the squares.
KingOnSquares(b, color) ==
    IF KingSquares(b, color) = {} THEN NoPos ELSE KingSquare(b, color)

\* C23: after from_fen on a position with at most one king per color, and after
\* any sequence of make_move calls with legal moves and matching undo_move
\* calls, find_king(c) is the square of the piece of color c whose effective
\* type is King, and is absent exactly when no such piece is on the board.
C23_KingCacheMatchesSquares ==
    (Playable /\ OneKingPerColor(from_fen(fen))) =>
        \A c \in Colors : find_king(board, c) = KingOnSquares(board, c)

\* C23 witness: a legal move has captured a king; no king of that color is left
\* on the squares, its cache is cleared and the mover's cache names its king.
C23_KingCaptureClearsCache ==
    /\ Playable /\ OneKingPerColor(from_fen(fen))
    /\ last.op = "make_move"
    /\ last.captured # Empty
    /\ get_movement_type(last.captured) = "King"
    /\ find_king(board, last.captured.color) = NoPos
    /\ find_king(board, last.color) = KingOnSquares(board, last.color)
    /\ find_king(board, last.color) # NoPos

\* The result the spec states for a board on which both kings stand.
ResultWithKings(b) ==
    IF get_legal_moves(b, b.current_turn) = <<>>
    THEN (IF is_in_check(b, b.current_turn)
          THEN (IF b.current_turn = Red THEN "BlackWin" ELSE "RedWin")
          ELSE "Draw")
    ELSE "Ongoing"

\* C7 (as stated): get_game_result is RedWin whenever the Black king is missing
\* and BlackWin whenever the Red king is missing; with both kings present it is
\* the opponent's win when the side to move has no legal move and is in check,
\* Draw when it has none and is not in check, Ongoing exactly when it has one.
C7_GameResultAsStated ==
    (Playable /\ OneKingPerColor(from_fen(fen))) =>
        LET r == get_game_result(board)
            no_red == KingSquares(board, Red) = {}
            no_black == KingSquares(board, Black) = {}
        IN /\ no_black => r = "RedWin"
           /\ no_red => r = "BlackWin"
           /\ (~no_red /\ ~no_black) => r = ResultWithKings(board)

\* C7 (amended): BlackWin whenever the Red king is missing; RedWin when the
\* Black king is missing and the Red king is present; otherwise as stated.
C7_GameResultRedFirst ==
    (Playable /\ OneKingPerColor(from_fen(fen))) =>
        LET r == get_game_result(board)
            no_red == KingSquares(board, Red) = {}
            no_black == KingSquares(board, Black) = {}
        IN /\ (no_black /\ ~no_red) => r = "RedWin"
           /\ no_red => r = "BlackWin"
           /\ (~no_red /\ ~no_black) => r = ResultWithKings(board)

\* C7 witness: a legal move has captured the Black king while the Red king
\* stands, and the result is RedWin.
C7_BlackKingCaptured ==
    /\ Playable /\ OneKingPerColor(from_fen(fen))
    /\ last.op = "make_move"
    /\ KingSquares(board, Black) = {} /\ KingSquares(board, Red) # {}
    /\ get_game_result(board) = "RedWin"

\* C8: on every board built by from_fen from an accepted FEN, and after any
\* sequence of Board calls on it, every hidden piece has no actual_type and has
\* a movement_type, every revealed piece has an actual_type, and
\* get_movement_type is defined for every piece on the board.
C8_PiecesWellFormed ==
    board.ok =>
        \A i \in 0..89 :
            LET p == board.squares[i] IN
            p # Empty =>
                /\ p.is_hidden => (p.actual_type = NoType /\ p.movement_type # NoType)
                /\ ~p.is_hidden => p.actual_type # NoType
                /\ get_movement_type(p) # Panic
\* The brute-force check: some piece of the attacker color has the target
\* among the squares get_potential_moves generates for it.
GeneratedOnto(b, target_pos, attacker_color) ==
    \E i \in 0..89 :
        /\ b.squares[i] # Empty
        /\ b.squares[i].color = attacker_color
        /\ \E k \in 1..Len(get_potential_moves(b, b.squares[i])) :
               get_potential_moves(b, b.squares[i])[k] = target_pos

StrictlyBetween(p, a, z) ==
    \/ /\ p.row = a.row /\ a.row = z.row
       /\ \/ a.col < p.col /\ p.col < z.col
          \/ z.col < p.col /\ p.col < a.col
    \/ /\ p.col = a.col /\ a.col = z.col
       /\ \/ a.row < p.row /\ p.row < z.row
          \/ z.row < p.row /\ p.row < a.row

PiecesBetween(b, a, z) ==
    Cardinality({i \in 0..89 : b.squares[i] # Empty /\ StrictlyBetween(from_index(i), a, z)})

SameLine(a, z) == a # z /\ (a.row = z.row \/ a.col = z.col)

Cannons(b) ==
    {j \in 0..89 : b.squares[j] # Empty /\ get_movement_type(b.squares[j]) = "Cannon"}

\* The board with every other piece of the color of the piece on square j
\* handed to the opposite color: every square stays occupied as it was and the
\* piece on j is the only attacker of its color.
OnlyAttacker(b, j) ==
    [b EXCEPT !.squares =
        [i \in 0..89 |->
            IF b.squares[i] # Empty /\ i # j /\ b.squares[i].color = b.squares[j].color
            THEN [b.squares[i] EXCEPT !.color = opposite(b.squares[j].color)]
            ELSE b.squares[i]]]

\* C12: with a cannon (revealed, or hidden on a cannon square) as the only
\* attacker, is_position_attacked reports a square attacked exactly when the
\* square is on the cannon's rank or file and exactly one piece of either color
\* stands between them; with no piece or two or more between it reports none.
C12_CannonNeedsOneScreen ==
    Playable =>
        \A j \in Cannons(board) :
            \A t \in 0..89 :
                t # j =>
                    (is_position_attacked(OnlyAttacker(board, j), from_index(t),
                                          board.squares[j].color)
                     <=> /\ SameLine(from_index(j), from_index(t))
                         /\ PiecesBetween(board, from_index(j), from_index(t)) = 1)

\* A board after a move on which one cannon has, on its lines, a square behind
\* no piece, a square behind one piece that is reported attacked, and a square
\* behind two pieces.
C12_CannonScreens ==
    /\ Playable
    /\ last.op = "make_move"
    /\ \E j \in Cannons(board) :
          /\ \E t \in 0..89 :
                /\ SameLine(from_index(j), from_index(t))
                /\ PiecesBetween(board, from_index(j), from_index(t)) = 0
          /\ \E t \in 0..89 :
                /\ SameLine(from_index(j), from_index(t))
                /\ PiecesBetween(board, from_index(j), from_index(t)) = 1
                /\ is_position_attacked(OnlyAttacker(board, j), from_index(t),
                                        board.squares[j].color)
          /\ \E t \in 0..89 :
                /\ SameLine(from_index(j), from_index(t))
                /\ PiecesBetween(board, from_index(j), from_index(t)) >= 2

\* The two kings stand on one file with every square between them empty.
KingsFacing(b) ==
    /\ KingSquare(b, Red).col = KingSquare(b, Black).col
    /\ PiecesBetween(b, KingSquare(b, Red), KingSquare(b, Black)) = 0

\* The legal moves of the side to move that take its king onto the enemy king.
KingOntoKing(b) ==
    {k \in 1..Len(get_legal_moves(b, b.current_turn)) :
        /\ get_legal_moves(b, b.current_turn)[k].from_pos = KingSquare(b, b.current_turn)
        /\ get_legal_moves(b, b.current_turn)[k].to_pos
               = KingSquare(b, opposite(b.current_turn))}

OneStep(a, z) ==
    \/ a.row = z.row /\ (a.col = z.col + 1 \/ z.col = a.col + 1)
    \/ a.col = z.col /\ (a.row = z.row + 1 \/ z.row = a.row + 1)

\* C13: on a board with one king per color, when the kings face each other on
\* an open file get_legal_moves of the side to move contains its king's move
\* onto the enemy king's square; when they do not, it contains no such move
\* from more than one step away.
C13_FlyingGeneral ==
    (Playable /\ BothKings(board)) =>
        IF KingsFacing(board)
        THEN KingOntoKing(board) # {}
        ELSE \/ KingOntoKing(board) = {}
             \/ OneStep(KingSquare(board, Red), KingSquare(board, Black))

(***************************************************************************)
(* Properties of the FEN codec                                             *)
(***************************************************************************)
\* The board field of the text spells every run of empty squares as one digit.
CanonicalRuns(s) ==
    \A i \in 1..(Len(s) - 1) : ~(is_ascii_digit(s[i]) /\ is_ascii_digit(s[i + 1]))

\* C6: for every FEN text that parse_fen accepts and that uses the canonical
\* empty-run encoding, pieces_to_fen of the parsed pieces, captured record, turn
\* and viewer returns the original text character for character.
C6_RoundTripIdentity ==
    (emitted.done /\ CanonicalRuns(text)) => emitted.text = text
\* The format spelled out: four whitespace-separated fields, a board of ten
\* rows, every row made of digits, piece letters and X/x and spelling nine
\* squares, turn and viewer the single letter r or b.
BoardChar(ch) ==
    \/ is_ascii_digit(ch)
    \/ ch \in {"X", "x"}
    \/ to_ascii_lowercase(ch) \in {"k", "a", "e", "h", "r", "c", "p"}

RECURSIVE RowWidth(_)
RowWidth(row) ==
    IF row = <<>> THEN 0
    ELSE (IF is_ascii_digit(Head(row)) THEN DigitVal(Head(row)) ELSE 1) + RowWidth(Tail(row))

RowAsRequired(row) ==
    /\ \A k \in 1..Len(row) : BoardChar(row[k])
    /\ RowWidth(row) = 9

BoardAsRequired(board_str) ==
    /\ Len(split(board_str, "/")) = 10
    /\ \A k \in 1..Len(split(board_str, "/")) : RowAsRequired(split(board_str, "/")[k])

FenAsRequired(s) ==
    /\ Len(split_whitespace(s)) = 4
    /\ BoardAsRequired(Field(s, 1))
    /\ Field(s, 3) \in {<<"r">>, <<"b">>}
    /\ Field(s, 4) \in {<<"r">>, <<"b">>}

\* C15: parse_fen returns an error for every text that does not have exactly
\* four fields, a board of exactly ten rows, rows spelling nine squares with
\* digits, piece letters and X/x only, and the single letter r or b as turn
\* and as viewer.
C15_MalformedFenRejected ==
    (parsed.done /\ ~FenAsRequired(text)) => ~parsed.result.ok

(***************************************************************************)
(* Properties of the hidden-piece pool during play                         *)
(***************************************************************************)
GameBoard == from_fen(game.fen)

\* C9: on every position reached by legal play with every capture entered in the
\* captured record, for each color the remaining counts computed by
\* HiddenPieceDistribution::from_board (IT3 and IT2) sum to the number of that
\* color's hidden pieces on the board.
C9_PoolMatchesHiddenCount ==
    \A c \in Colors :
        /\ total_count(from_board(GameBoard, c)) = hidden_count(GameBoard, c)
        /\ total_count(it2_from_board(GameBoard, c)) = hidden_count(GameBoard, c)

\* C10: when the captured record of a color holds k > 0 entries of unknown
\* identity, the counts from_board returns sum to k less than the sum of
\* max(0, initial - revealed - captured with known identity), no count exceeds
\* its value before the reduction, and the slots left over after proportional
\* rounding go to the types in descending piece value.
C10_UnknownCapturesReducePool ==
    \A c \in Colors :
        LET k == get_captured(GameBoard, c).captured_hidden
            before == remaining_before(GameBoard, c)
            after == from_board(GameBoard, c).remaining
            share == [t \in PieceTypes |->
                         (before[t] * (sum(before) - k)) \div sum(before)]
        IN (k > 0 /\ sum(before) > 0) =>
              /\ sum(after) = sum(before) - k
              /\ \A t \in PieceTypes : after[t] <= before[t]
              /\ \A t, h \in PieceTypes :
                     (PIECE_VALUES(h) > PIECE_VALUES(t) /\ after[t] > share[t])
                     => after[h] = before[h]

(***************************************************************************)
(* Properties of apply_move_to_fen under submitted moves                   *)
(***************************************************************************)
\* The position the last submitted move was applied to.
PrevBoard == from_fen(game.prev)

\* The last submitted move is in the legal-move set of that position.
SubmittedLegal ==
    \E k \in 1..Len(get_legal_moves(PrevBoard, PrevBoard.current_turn)) :
        get_legal_moves(PrevBoard, PrevBoard.current_turn)[k] = game.mv

\* C14: a well-formed move that is not in the legal-move set of the position
\* is never applied: apply_move_to_fen returns a new FEN only for moves of the
\* legal-move set.
C14_IllegalMoveRejected ==
    (game.returned = "Ok" /\ BoardSound(PrevBoard)) => SubmittedLegal

\* The piece a parsed position holds on a square (<<>> when the square is empty).
StandsOn(state, pos) ==
    IF PieceAt(state.pieces, pos.row, pos.col) = 0 THEN <<>>
    ELSE <<state.pieces[PieceAt(state.pieces, pos.row, pos.col)]>>

CapturedOf(state, color) ==
    IF color = Red THEN state.captured.red_captured ELSE state.captured.black_captured

\* The position read from the returned FEN against the position read from the
\* FEN the move was applied to.
MovedAsStated(old, new, mv, revealed_type) ==
    /\ new.ok
    /\ StandsOn(new, mv.to_pos) = <<MovedPiece(StandsOn(old, mv.from_pos)[1], mv, revealed_type)>>
    /\ StandsOn(new, mv.from_pos) = <<>>
    /\ \A i \in 0..89 :
          from_index(i) \notin {mv.from_pos, mv.to_pos}
              => StandsOn(new, from_index(i)) = StandsOn(old, from_index(i))
    /\ new.turn = opposite(old.turn)
    /\ new.viewer = old.viewer

CapturedAsStated(old, new, mv) ==
    IF StandsOn(old, mv.to_pos) = <<>>
    THEN new.captured = old.captured
    ELSE /\ CapturedOf(new, StandsOn(old, mv.to_pos)[1].color)
              = Append(CapturedOf(old, StandsOn(old, mv.to_pos)[1].color),
                       CapturedPieceInfo(StandsOn(old, mv.to_pos)[1].piece_type,
                                         StandsOn(old, mv.to_pos)[1].is_hidden))
         /\ CapturedOf(new, opposite(StandsOn(old, mv.to_pos)[1].color))
              = CapturedOf(old, opposite(StandsOn(old, mv.to_pos)[1].color))

\* C16: the FEN returned by apply_move_to_fen for a move from an occupied
\* square holds the moved piece on the to-square, nothing on the from-square,
\* every other square as before, the turn flipped and the viewer kept; the
\* captured record of the captured piece's color has one entry (type and
\* was_hidden) appended when the to-square was occupied, and the records are
\* as before when it was empty.
C16_AppliedMoveAsStated ==
    game.returned = "Ok" =>
        /\ MovedAsStated(parse_fen(game.prev), parse_fen(game.fen), game.mv,
                         game.revealed_type)
        /\ CapturedAsStated(parse_fen(game.prev), parse_fen(game.fen), game.mv)

(***************************************************************************)
(* Properties of the IT3 search                                            *)
(***************************************************************************)
\* A root move of the current depth has been scored; the last one scored.
Scoring == search.phase \in {"move", "end"} /\ search.current_scores # <<>>
LastScored == search.current_scores[Len(search.current_scores)]
RootTurn == search.board.current_turn

\* C3: with a time limit, the published ranking holds the scores of a depth
\* during which every clock read found the budget unspent, so that no root
\* move's search was cut short: the reads made up to the publication (best_t)
\* do not exceed the number of reads that precede the expiry (deadline).
C3_PublishedDepthCompleted ==
    (search.phase # "idle" /\ search.ai.limited /\ search.best_depth > 0)
        => search.best_t <= search.ai.deadline

\* The child position of a reveal move in which the moved piece has identity
\* piece_type, and the child position of a plain move: each made on the
\* parent's board as it stood, not on a board other children were searched on.
ChildWithIdentity(b, mv, piece_type) ==
    make_move(simulate_reveal(b, mv.from_pos, piece_type).board,
              [mv EXCEPT !.action_type = Move]).board

ChildAfter(b, mv) == make_move(b, mv).board

\* Sum over the outcomes (t, p) of p times the search value of the child with
\* identity t, the children searched one after the other from clock read t.
RECURSIVE WeightedChildren(_, _, _, _, _, _)
WeightedChild(ai, b, mv, next_ctx, types, child) ==
    f64_add(f64_mul(Head(types).probability, child.value),
            WeightedChildren(ai, b, mv, next_ctx, Tail(types), child.t))

WeightedChildren(ai, b, mv, next_ctx, types, t) ==
    IF types = <<>> THEN f64(0, 1)
    ELSE WeightedChild(ai, b, mv, next_ctx, types,
                       expectimax(ai, ChildWithIdentity(b, mv, Head(types).piece_type),
                                  next_ctx, t))

\* C4: the value chance_node returns for a reveal move is the sum, over every
\* outcome (t, p) of possible_types of the mover's pool, of p times the search
\* value of the child position in which the moved piece has identity t.
C4_ChanceNodeIsExpectation ==
    (Scoring /\ LastScored.mv.action_type = RevealAndMove)
        => LastScored.score =
               WeightedChildren(search.ai, search.board, LastScored.mv,
                                next_ply(SearchContext_new(search.depth, RootTurn)),
                                possible_types(from_board(search.board, RootTurn)),
                                search.t0)

\* Expectiminimax without pruning, from the point of view pov: maximum where
\* pov moves, minimum where the opponent moves, probability-weighted mean at
\* reveal moves, terminal_eval at depth 0 or without a legal move.
RECURSIVE Expectiminimax(_, _, _, _)
RECURSIVE MeanOver(_, _, _, _, _, _)
MeanOver(b, mv, depth, ply, pov, types) ==
    IF types = <<>> THEN f64(0, 1)
    ELSE f64_add(f64_mul(Head(types).probability,
                         Expectiminimax(ChildWithIdentity(b, mv, Head(types).piece_type),
                                        depth - 1, ply + 1, pov)),
                 MeanOver(b, mv, depth, ply, pov, Tail(types)))

MoveExpectation(b, mv, depth, ply, pov) ==
    IF mv.action_type = RevealAndMove
    THEN MeanOver(b, mv, depth, ply, pov, possible_types(from_board(b, b.current_turn)))
    ELSE Expectiminimax(ChildAfter(b, mv), depth - 1, ply + 1, pov)

RECURSIVE Extreme(_, _, _)
Extreme(is_max, values, k) ==
    IF k = Len(values) THEN values[k]
    ELSE IF is_max THEN f64_max(values[k], Extreme(is_max, values, k + 1))
    ELSE f64_min(values[k], Extreme(is_max, values, k + 1))

ValueOver(b, depth, ply, pov, moves) ==
    IF depth <= 0 \/ moves = <<>> THEN terminal_eval(b, pov, ply).value
    ELSE Extreme(b.current_turn = pov,
                 [k \in 1..Len(moves) |-> MoveExpectation(b, moves[k], depth, ply, pov)], 1)

Expectiminimax(b, depth, ply, pov) ==
    ValueOver(b, depth, ply, pov, get_legal_moves(b, b.current_turn))

\* C5: without a time limit the score of each root move at depth d is the
\* depth-d expectiminimax value computed without pruning, from the point of
\* view of the side to move at the root.
C5_ScoreIsExpectiminimax ==
    (Scoring /\ ~search.ai.limited)
        => LastScored.score =
               MoveExpectation(search.board, LastScored.mv, search.depth, 0, RootTurn)

\* The ranking select_moves returns for the whole list of root moves.
Ranking == select_moves(search.best_moves, Len(search.best_moves))

\* The depth-0 static evaluation of the position after a root move, from the
\* point of view of the side to move at the root.
StaticAfter(mv) ==
    RootScore([search.ai EXCEPT !.limited = FALSE], search.board, mv, 1, 0).value

\* C17: when the budget cancels the search before any depth has completed,
\* select_moves returns the root moves ranked by the static evaluation of the
\* position after each of them (no move ranked above a move of higher static
\* value); otherwise it returns the ranking of the last completed depth.
C17_FallbackIsStaticRanking ==
    (search.phase = "done" /\ search.moves # <<>>) =>
        IF search.best_depth = 0
        THEN /\ Len(Ranking) = Len(search.moves)
             /\ \A i \in 1..Len(Ranking) : \A j \in 1..Len(Ranking) :
                    i < j => f64_le(StaticAfter(Ranking[j].mv), StaticAfter(Ranking[i].mv))
        ELSE Ranking = search.best_moves

\* C18: on a board whose game result is not Ongoing (a king missing, or the
\* side to move without a legal move) select_moves returns an empty ranking.
C18_FinishedGameEmptyRanking ==
    (search.phase = "done" /\ get_game_result(search.board) # "Ongoing") => Ranking = <<>>

\* The expectimax calls entered after the budget expired during the root move
\* scored by a step: the clock reads of the step, from the first one that
\* found the budget spent.
NodesAfterExpiry(before, after) ==
    IF after.t <= before.ai.deadline THEN 0
    ELSE after.t - (IF before.t + 1 > before.ai.deadline THEN before.t + 1
                    ELSE before.ai.deadline)

\* C19: with a time limit, at most one expectimax call is entered after the
\* budget expired while a root move is searched: the recursions in progress
\* return at once, none of them goes on to a further child or sibling move.
C19_OneNodeAfterExpiry ==
    [][(/\ search.phase = "move"
        /\ search.ai.limited
        /\ Len(search'.current_scores) = Len(search.current_scores) + 1)
           => NodesAfterExpiry(search, search') <= 1]_vars

(***************************************************************************)
(* Properties of the static evaluation                                     *)
(***************************************************************************)
\* The two evaluations of one board, and each of them against the evaluation
\* for the other color made next on the board the first call left (the same
\* evaluation again when the first call left the board as it was).
Antisymmetric(b, as_red, as_black) ==
    /\ as_red.value = f64_neg(as_black.value)
    /\ as_red.board # b => evaluate(as_red.board, Black).value = f64_neg(as_red.value)
    /\ as_black.board # b => evaluate(as_black.board, Red).value = f64_neg(as_black.value)

\* The boards at hand: the board under make_move / undo_move, and the board of
\* the position a game has reached.
EvalBoards ==
    (IF Playable THEN {board} ELSE {})
    \cup (IF game.fen # <<>> /\ BoardSound(GameBoard) THEN {GameBoard} ELSE {})

\* C20: evaluate(b, Red) = -evaluate(b, Black) on every board; also when the
\* two calls are made one after the other on the one board object, in either
\* order (evaluate leaves the board as its calls of get_legal_moves leave it).
C20_EvaluateAntisymmetric ==
    \A b \in EvalBoards : Antisymmetric(b, evaluate(b, Red), evaluate(b, Black))

\* A position reached by play, with hidden pieces on the board, whose
\* evaluation is not zero and is opposite for the two colors.
C20_NonZeroEvaluation ==
    /\ game.ply > 0
    /\ \E c \in Colors : hidden_count(GameBoard, c) > 0
    /\ evaluate(GameBoard, Red).value.n # 0
    /\ evaluate(GameBoard, Red).value = f64_neg(evaluate(GameBoard, Black).value)


(***************************************************************************)
(* Properties of terminal_eval                                             *)
(***************************************************************************)
\* The winner a game result names, if any.
Winner(result) ==
    CASE result = "RedWin" -> Red
      [] result = "BlackWin" -> Black
      [] OTHER -> NoType

\* The value the claim states for a position with the given result.
StatedTerminal(b, pov, ply, result) ==
    CASE Winner(result) = pov -> f64(MATE_SCORE - ply * PLY_PENALTY, 1)
      [] Winner(result) = opposite(pov) -> f64_neg(f64(MATE_SCORE - ply * PLY_PENALTY, 1))
      [] result = "Draw" -> f64(0, 1)
      [] result = "Ongoing" -> evaluate(b, pov).value

f64_lt(a, b) == f64_le(a, b) /\ a # b

\* C21: terminal_eval(board, pov, ply) is MATE_SCORE - ply * PLY_PENALTY when
\* the game result is a win for pov, the negation of that when it is a loss,
\* 0 on a draw and evaluate(board, pov) when the game is ongoing; so a win one
\* ply later scores strictly lower and a loss one ply later strictly higher.
C21_TerminalEvalAsStated ==
    last.op = "terminal_eval" =>
        /\ last.value = StatedTerminal(last.before, last.color, last.ply,
                                       get_game_result(last.before))
        /\ Winner(get_game_result(last.before)) = last.color =>
              f64_lt(terminal_eval(last.before, last.color, last.ply + 1).value, last.value)
        /\ Winner(get_game_result(last.before)) = opposite(last.color) =>
              f64_lt(last.value, terminal_eval(last.before, last.color, last.ply + 1).value)

\* C21 witness: a lost position has been scored at a ply above 0, below zero
\* and above -MATE_SCORE.
C21_LossScored ==
    /\ last.op = "terminal_eval"
    /\ last.ply > 0
    /\ Winner(get_game_result(last.before)) = opposite(last.color)
    /\ f64_lt(f64(-MATE_SCORE, 1), last.value)
    /\ f64_lt(last.value, f64(0, 1))


(***************************************************************************)
(* Properties of the ranking select_moves returns                          *)
(***************************************************************************)
MaxTop == 4

\* The place of a root move in the list get_legal_moves generated.
MoveIndex(mv) == CHOOSE k \in 1..Len(search.moves) : search.moves[k] = mv

Ordered(ranking) ==
    \A i \in 1..Len(ranking) : \A j \in 1..Len(ranking) :
        i < j => /\ f64_le(ranking[j].score, ranking[i].score)
                 /\ ranking[i].score = ranking[j].score
                       => MoveIndex(ranking[i].mv) < MoveIndex(ranking[j].mv)

\* C22: the list select_moves(board, n) returns has at most n entries, is in
\* non-increasing order of score and, with randomness off, holds any two moves
\* of equal score in the order in which get_legal_moves generated them.
C22_RankingOrdered ==
    search.phase = "done" =>
        \A n \in 0..MaxTop :
            /\ Len(select_moves(search.best_moves, n)) <= n
            /\ Ordered(select_moves(search.best_moves, n))

\* C22 witness: a completed depth has been returned whose ranking is cut by n,
\* holds two moves of equal score and two moves of different scores.
C22_TiedAndCut ==
    /\ search.phase = "done" /\ search.best_depth > 0
    /\ Len(search.best_moves) > MaxTop
    /\ Len(select_moves(search.best_moves, MaxTop)) = MaxTop
    /\ \E i \in 1..MaxTop - 1 :
          select_moves(search.best_moves, MaxTop)[i].score
              = select_moves(search.best_moves, MaxTop)[i + 1].score
    /\ \E i \in 1..MaxTop - 1 :
          select_moves(search.best_moves, MaxTop)[i].score
              # select_moves(search.best_moves, MaxTop)[i + 1].score


(***************************************************************************)
(* Properties of the IT3 chance node                                       *)
(***************************************************************************)
\* The piece the reveal move has carried to its to-square.
MovedPieceOfChild == get_piece(search.board, search.mv.to_pos)

\* C24: in the IT3 chance node, for each outcome (t, p) the move is applied as a
\* plain Move after the identity has been stipulated: the child position that
\* is searched has the moved piece on the to-square, revealed, with
\* actual_type t and not the movement type of the square it started from.
C24_ChildHasStipulatedIdentity ==
    search.phase = "child" =>
        /\ MovedPieceOfChild # Empty
        /\ MovedPieceOfChild.color = search.entry.current_turn
        /\ ~MovedPieceOfChild.is_hidden
        /\ MovedPieceOfChild.actual_type = search.piece_type
        /\ get_movement_type(MovedPieceOfChild) = search.piece_type
        /\ get_piece(search.board, search.mv.from_pos) = Empty

\* C24 witness: a child is about to be searched whose moved piece has an
\* identity other than the movement type of its starting square.
C24_IdentityOtherThanSquare ==
    /\ search.phase = "child"
    /\ search.piece_type # get_position_piece_type(search.mv.from_pos)
    /\ MovedPieceOfChild.actual_type = search.piece_type
    /\ MovedPieceOfChild.movement_type = get_position_piece_type(search.mv.from_pos)

\* The value and the board chance_node returns, computed in one piece.
ChanceNodeAsAWhole ==
    chance_node(search.ai, search.entry, search.mv, search.ctx,
                search.entry.current_turn, 0)

\* The steps of the loop add up to chance_node.
StepsAreChanceNode ==
    search.phase = "done" =>
        /\ search.expected = ChanceNodeAsAWhole.value
        /\ search.board = ChanceNodeAsAWhole.board
        /\ search.t = ChanceNodeAsAWhole.t


\* simulate_reveal(m.from_pos, t); make_move(m as plain Move);
\* undo_move(m, captured, was_hidden = true); restore_simulated_reveal(saved).
Unmade(b, mv, reveal, made) ==
    restore_simulated_reveal(undo_move(made.board, virtual_move(mv), made.captured, TRUE),
                             mv.from_pos, reveal.state)

RevealSequence(b, mv, reveal) ==
    Unmade(b, mv, reveal, make_move(reveal.board, virtual_move(mv)))

\* C27: for every RevealAndMove m of the side to move and every identity t that
\* possible_types returns for that side (King included while its king is
\* hidden), simulate_reveal, make_move of m as a plain Move, undo_move with
\* was_hidden = true and restore_simulated_reveal leave the board identical to
\* the one before, both cached king positions and the side to move included;
\* hence the board is unchanged when chance_node returns.
C27_RevealSequenceRestoresBoard ==
    /\ search.phase = "outcome" =>
          \A k \in 1..Len(search.types) :
              RevealSequence(search.board, search.mv,
                             simulate_reveal(search.board, search.mv.from_pos,
                                             search.types[k].piece_type)) = search.board
    /\ search.phase = "done" => search.board = search.entry


(***************************************************************************)
(* Properties of the search statistics                                     *)
(***************************************************************************)
\* The expectimax calls (visited nodes) made for the root move scored last:
\* NODE_COUNT grows by one at the head of each call, where the clock is read.
NodesOfLastMove == search.t - search.t0

\* C25: the node counter never decreases and grows by one per visited node,
\* and the depth reported by get_depth_reached, at every moment of the search
\* and when select_moves returns, is the greatest depth whose search of all
\* root moves has completed, never a depth that was started but not finished.
C25_DepthReachedIsCompleted ==
    search.phase \in {"depth", "move", "end", "done"} =>
        /\ search.depth_reached = search.best_depth
        /\ Scoring => NodesOfLastMove >= 1


(***************************************************************************)
(* Properties of make_move under any move                                  *)
(***************************************************************************)
\* C26: make_move called with a move whose from-square is empty fails safely:
\* it returns no captured piece and leaves the whole board unchanged, that is
\* every square, both cached king positions and the side to move.
C26_EmptyFromSquareIsSafe ==
    (last.op = "make_move_any" /\ get_piece(last.before, last.mv.from_pos) = Empty) =>
        /\ last.captured = Empty
        /\ board = last.before

\* C26 witness: a reveal move from an empty square onto a king has been
\* submitted; the king stands, its cache names it and the turn has not passed.
C26_KingNotTakenFromEmptySquare ==
    /\ last.op = "make_move_any"
    /\ last.mv.action_type = RevealAndMove
    /\ get_piece(last.before, last.mv.from_pos) = Empty
    /\ get_piece(board, last.mv.to_pos) # Empty
    /\ get_movement_type(get_piece(board, last.mv.to_pos)) = "King"
    /\ find_king(board, get_piece(board, last.mv.to_pos).color) = last.mv.to_pos
    /\ board.current_turn = last.before.current_turn
    /\ last.captured = Empty


(***************************************************************************)
(* Properties of the IT2 chance node                                       *)
(***************************************************************************)
\* C28: in the IT2 chance node (the default strategy), for each outcome (t, p)
\* of the hidden-piece distribution the child position that is searched has
\* the moved piece revealed with actual_type t, so that the value returned is
\* the probability-weighted mean over positions that differ in the revealed
\* identity.
C28_It2ChildHasStipulatedIdentity ==
    search.phase = "child" =>
        /\ MovedPieceOfChild # Empty
        /\ ~MovedPieceOfChild.is_hidden
        /\ MovedPieceOfChild.actual_type = search.piece_type


(***************************************************************************)
(* Properties of the FEN apply_move_to_fen returns                         *)
(***************************************************************************)
\* C29: for every FEN accepted by parse_fen and every move whose from-square
\* is occupied, the string returned by apply_move_to_fen is itself accepted by
\* parse_fen, and the board it describes holds one piece fewer than the input
\* when the to-square was occupied and the same number of pieces otherwise.
C29_ReturnedFenParses ==
    (game.returned # "none" /\ StandsOn(parse_fen(game.prev), game.mv.from_pos) # <<>>) =>
        /\ game.returned = "Ok"
        /\ parse_fen(game.fen).ok
        /\ Len(parse_fen(game.fen).pieces) =
              IF StandsOn(parse_fen(game.prev), game.mv.to_pos) # <<>>
              THEN Len(parse_fen(game.prev).pieces) - 1
              ELSE Len(parse_fen(game.prev).pieces)


(***************************************************************************)
(* Properties of the captured record through the codec                     *)
(***************************************************************************)
\* C30: for every captured record (both colors, any mix of known revealed,
\* known hidden and unknown entries), emitting it with pieces_to_fen and
\* parsing the result with parse_fen returns the same sequence of
\* (piece_type, was_hidden) entries for each color.
C30_CapturedRoundTrip ==
    emitted.done =>
        /\ parse_fen(emitted.text).ok
        /\ parse_fen(emitted.text).captured.red_captured = parsed.result.captured.red_captured
        /\ parse_fen(emitted.text).captured.black_captured = parsed.result.captured.black_captured

================================================================
